---- MODULE Spec2Model ----
(***************************************************************************)
(* Kalam backend: the daily-word selector (app/main.py daily_word), the    *)
(* batch collector (app/main.py list_words / _collect_words) and the       *)
(* helpers they share.                                                     *)
(*                                                                         *)
(* Python values are tagged records: None, PyStr(s), PyInt(n), PyList(l), *)
(* PyDict(d). A Python str is a sequence of characters; an Arabic base      *)
(* letter, a diacritic and a white-space character are written by their    *)
(* Unicode names ("KAF", "FATHA", "NL"), every other character by itself.  *)
(***************************************************************************)
EXTENDS Integers, Sequences, FiniteSets, TLC

(* ------------------------------------------------------------------ *)
(* Python values                                                       *)
(* ------------------------------------------------------------------ *)
None == [t |-> "null"]
PyStr(s) == [t |-> "str", s |-> s]
PyInt(n) == [t |-> "int", n |-> n]
PyList(l) == [t |-> "list", l |-> l]
PyDict(d) == [t |-> "dict", d |-> d]

IsStr(v) == v.t = "str"
IsInt(v) == v.t = "int"
IsList(v) == v.t = "list"
IsDict(v) == v.t = "dict"

\* dict.get(k): the value under k, None when the key is absent
Get(d, k) == IF k \in DOMAIN d THEN d[k] ELSE None

\* Python truthiness of a value
Truthy(v) ==
    CASE v.t = "null" -> FALSE
      [] v.t = "str" -> v.s # <<>>
      [] v.t = "int" -> v.n # 0
      [] v.t = "list" -> v.l # <<>>
      [] v.t = "dict" -> DOMAIN v.d # {}

\* a or b
Or(a, b) == IF Truthy(a) THEN a ELSE b

(* ------------------------------------------------------------------ *)
(* Characters                                                          *)
(* ------------------------------------------------------------------ *)
\* U+0621..U+064A, the class of _AR_LETTERS
ArLetterChars == {"ALEF", "BEH", "TEH", "KAF"}
\* U+064B..U+0652 and U+0670, the class of _AR_DIACRITICS
ArDiacriticChars == {"FATHA", "SHADDA", "DAGGER_ALEF"}
\* what str.strip() removes at both ends
WhitespaceChars == {"SP", "NL"}

RECURSIVE FilterOut(_, _)
FilterOut(s, drop) ==
    IF s = <<>> THEN <<>>
    ELSE IF Head(s) \in drop THEN FilterOut(Tail(s), drop)
    ELSE <<Head(s)>> \o FilterOut(Tail(s), drop)

RECURSIVE LStrip(_)
LStrip(s) ==
    IF s # <<>> /\ Head(s) \in WhitespaceChars THEN LStrip(Tail(s)) ELSE s

RECURSIVE RStrip(_)
RStrip(s) ==
    IF s # <<>> /\ s[Len(s)] \in WhitespaceChars
    THEN RStrip(SubSeq(s, 1, Len(s) - 1)) ELSE s

\* str.strip()
Strip(s) == RStrip(LStrip(s))

\* str(v) for an int or a str: a str is itself, a small int its decimal digit
DigitChars == <<"0", "1", "2", "3", "4", "5", "6", "7", "8", "9">>
ToStr(v) == IF IsStr(v) THEN v.s ELSE <<DigitChars[v.n + 1]>>

(* ------------------------------------------------------------------ *)
(* Helpers: Arabic normalisation                                       *)
(* ------------------------------------------------------------------ *)
\* a pattern without U+0670: the dagger alef stays
StripTashkeelOnly(s) == FilterOut(s, ArDiacriticChars \ {"DAGGER_ALEF"})

\* _AR_DIACRITICS.sub("", s or "")
strip_diacritics(s) == FilterOut(s, ArDiacriticChars)

base_len_ar(s) == Len(strip_diacritics(s))

\* _AR_LETTERS.match(b), the pattern ^[U+0621-U+064A]+$: one or more letters up to the end of
\* the string, where "$" also matches just before a final newline
AR_LETTERS_match(b) ==
    LET body == IF b # <<>> /\ b[Len(b)] = "NL"
                THEN SubSeq(b, 1, Len(b) - 1) ELSE b
        allLetters(x) == x # <<>> /\ \A i \in 1..Len(x) : x[i] \in ArLetterChars
    IN allLetters(b) \/ allLetters(body)

is_ar_letters_only(s) ==
    LET b == strip_diacritics(s)
    IN b # <<>> /\ AR_LETTERS_match(b)

\* isinstance(v, str) and v.strip()
NonBlankStr(v) == IsStr(v) /\ Strip(v.s) # <<>>

\* the last such key instead of the first
RECURSIVE LastStrKey(_, _, _)
LastStrKey(d, keys, i) ==
    IF i > Len(keys) THEN 0
    ELSE IF LastStrKey(d, keys, i + 1) > 0 THEN LastStrKey(d, keys, i + 1)
    ELSE IF NonBlankStr(Get(d, keys[i])) THEN i
    ELSE 0

\* the first key of keys whose value in d is a non-blank str, 0 if none
RECURSIVE FirstStrKey(_, _, _)
FirstStrKey(d, keys, i) ==
    IF i > Len(keys) THEN 0
    ELSE IF NonBlankStr(Get(d, keys[i])) THEN i
    ELSE FirstStrKey(d, keys, i + 1)

WORD_KEYS == <<"lemma", "form", "headword", "word", "display", "text", "title", "entryHead">>
FORM_KEYS == <<"text", "value", "form">>

normalize_word(entry) ==
    LET i == FirstStrKey(entry, WORD_KEYS, 1)
        form == Get(entry, "form")
        j == IF IsDict(form) THEN FirstStrKey(form.d, FORM_KEYS, 1) ELSE 0
    IN IF i > 0 THEN Strip(entry[WORD_KEYS[i]].s)
       ELSE IF j > 0 THEN Strip(form.d[FORM_KEYS[j]].s)
       ELSE <<>>

\* the copy of the client module, which stops at "title"
KSAA_WORD_KEYS == <<"lemma", "form", "headword", "word", "display", "text", "title">>

ksaa_normalize_word(entry) ==
    LET i == FirstStrKey(entry, KSAA_WORD_KEYS, 1)
        form == Get(entry, "form")
        j == IF IsDict(form) THEN FirstStrKey(form.d, FORM_KEYS, 1) ELSE 0
    IN IF i > 0 THEN Strip(entry[KSAA_WORD_KEYS[i]].s)
       ELSE IF j > 0 THEN Strip(form.d[FORM_KEYS[j]].s)
       ELSE <<>>

\* isinstance(v, (str, int)) and str(v).strip()
IdLike(v) == (IsStr(v) \/ IsInt(v)) /\ Strip(ToStr(v)) # <<>>

RECURSIVE FirstIdKey(_, _, _)
FirstIdKey(d, keys, i) ==
    IF i > Len(keys) THEN 0
    ELSE IF IdLike(Get(d, keys[i])) THEN i
    ELSE FirstIdKey(d, keys, i + 1)

ID_KEYS == <<"id", "entryId", "lexicalEntryId", "uuid", "uid", "eid">>
META_ID_KEYS == <<"id", "entryId", "lexicalEntryId">>

\* the entry id as a str value, None when the entry has none
normalize_entry_id(entry) ==
    LET i == FirstIdKey(entry, ID_KEYS, 1)
        meta == Or(Or(Get(entry, "meta"), Get(entry, "metadata")), PyDict(<<>>))
        j == IF IsDict(meta) THEN FirstIdKey(meta.d, META_ID_KEYS, 1) ELSE 0
    IN IF i > 0 THEN PyStr(ToStr(entry[ID_KEYS[i]]))
       ELSE IF j > 0 THEN PyStr(ToStr(meta.d[META_ID_KEYS[j]]))
       ELSE None

(* ------------------------------------------------------------------ *)
(* Helpers: definition extraction                                      *)
(* ------------------------------------------------------------------ *)
\* F(v) for the first element v of l with F(v) # None; None if there is none
FirstSome(l, F(_)) ==
    LET hits == {i \in 1..Len(l) : F(l[i]) # None}
    IN IF hits = {} THEN None
       ELSE F(l[CHOOSE i \in hits : \A j \in hits : i <= j])

StrippedOrNone(v) == IF NonBlankStr(v) THEN PyStr(Strip(v.s)) ELSE None

\* _first_str(*vals): the first non-blank str of vals, stripped
_first_str(vals) == FirstSome(vals, StrippedOrNone)

AR_LANG_TAGS ==
    { <<"a", "r">>, <<"a", "r", "a">>, <<"a", "r", "-", "S", "A">>,
      <<"a", "r", "_", "S", "A">>, <<"A", "R">> }

IsArabicTagged(r) ==
    IsDict(r) /\ IsStr(Get(r.d, "lang")) /\ Get(r.d, "lang").s \in AR_LANG_TAGS

RepText(r) ==
    IF IsDict(r) THEN _first_str(<<Get(r.d, "text"), Get(r.d, "value")>>) ELSE None
ArabicRepText(r) == IF IsArabicTagged(r) THEN RepText(r) ELSE None

\* one pass, whatever the language tags
RepsFirstTextual(reps) == FirstSome(reps, RepText)

\* the two passes over a representations array: Arabic-tagged first
RepsText(reps) ==
    LET ar == FirstSome(reps, ArabicRepText)
    IN IF ar # None THEN ar ELSE FirstSome(reps, RepText)

REP_KEYS ==
    << "representations", "definitionRepresentations",
       "senseDefinitionRepresentations", "statementRepresentations" >>

\* the direct fields, then a definition that is a record
DirectText(s) ==
    LET direct == _first_str(<<Get(s, "definition_ar"), Get(s, "gloss_ar"),
                               Get(s, "definition"), Get(s, "gloss")>>)
        d == Get(s, "definition")
    IN IF direct # None THEN direct
       ELSE IF IsDict(d) THEN _first_str(<<Get(d.d, "value"), Get(d.d, "text")>>)
       ELSE None

\* the definitions array variant: Arabic-tagged, then dict text or plain str
DefsItemText(d) == IF IsDict(d) THEN RepText(d) ELSE StrippedOrNone(d)
DefsText(defs) ==
    LET ar == FirstSome(defs, ArabicRepText)
    IN IF ar # None THEN ar ELSE FirstSome(defs, DefsItemText)

\* Case B, one record s of the list (main.py 139-199)
SenseRecordText(v) ==
    IF ~IsDict(v) THEN None
    ELSE
    LET s == v.d
        senses == Get(s, "senses")
        fromSenses == IF IsList(senses) THEN FirstSome(senses.l, StrippedOrNone)
                      ELSE None
        direct == DirectText(s)
        repsOf(k) == IF IsList(Get(s, k)) /\ Get(s, k).l # <<>>
                     THEN RepsText(Get(s, k).l) ELSE None
        fromReps == FirstSome(REP_KEYS, repsOf)
        defs == Or(Get(s, "definitions"), Get(s, "definitionList"))
        fromDefs == IF IsList(defs) /\ defs.l # <<>> THEN DefsText(defs.l) ELSE None
    IN IF fromSenses # None THEN fromSenses
       ELSE IF direct # None THEN direct
       ELSE IF fromReps # None THEN fromReps
       ELSE fromDefs

\* Case C, a single record (main.py 203-231)
SingleRecordText(s) ==
    LET direct == DirectText(s)
        repsOf(k) == IF IsList(Get(s, k)) THEN RepsText(Get(s, k).l) ELSE None
    IN IF direct # None THEN direct ELSE FirstSome(REP_KEYS, repsOf)

\* the definition as a PyStr, None when the payload holds no text
extract_definition_from_senses(payload) ==
    IF IsList(payload) /\ payload.l # <<>> /\ IsStr(payload.l[1])
    THEN StrippedOrNone(payload.l[1])
    ELSE IF IsList(payload) /\ payload.l # <<>> /\ IsDict(payload.l[1])
    THEN FirstSome(payload.l, SenseRecordText)
    ELSE IF IsDict(payload) THEN SingleRecordText(payload.d)
    ELSE None

(* ------------------------------------------------------------------ *)
(* Configuration (main.py 21-29)                                       *)
(* ------------------------------------------------------------------ *)
MIN_LEN == 4
MAX_LEN == 7
MAX_RANDOM_TRIES == 20
COLLECT_ATTEMPT_MULTIPLIER == 20
COLLECT_ATTEMPTS_MIN == 200

(* ------------------------------------------------------------------ *)
(* The upstream dictionary: what a search and a sense lookup can       *)
(* return                                                              *)
(* ------------------------------------------------------------------ *)
W_KITAB == <<"KAF", "TEH", "ALEF", "BEH">>
W_KATABA == <<"KAF", "FATHA", "TEH", "FATHA", "BEH", "ALEF", "TEH">>
W_BABA == <<"BEH", "ALEF", "BEH", "ALEF">>
W_LONG7 == <<"TEH", "SHADDA", "ALEF", "BEH", "KAF", "ALEF", "TEH", "BEH", "DAGGER_ALEF">>
W_SHORT3 == <<"KAF", "FATHA", "TEH", "BEH">>
W_LONG8 == <<"KAF", "TEH", "ALEF", "BEH", "KAF", "TEH", "ALEF", "BEH">>
W_LATIN == <<"KAF", "TEH", "x", "ALEF", "BEH">>
W_NEWLINE == <<"TEH", "ALEF", "BEH", "NL", "FATHA">>

\* entries that pass the filters of the daily pick
E_KITAB_1 == [lemma |-> PyStr(W_KITAB), id |-> PyStr(<<"1">>)]
E_BABA_1 == [form |-> PyDict([text |-> PyStr(<<"SP">> \o W_BABA)]), id |-> PyInt(1)]
E_KITAB_2 == [word |-> PyStr(W_KITAB), meta |-> PyDict([entryId |-> PyStr(<<"2">>)])]
E_KATABA == [lemma |-> PyStr(W_KATABA \o <<"NL">>)]
E_LONG7 == [headword |-> PyStr(W_LONG7), uuid |-> PyInt(3)]
E_NEWLINE == [lemma |-> PyStr(W_NEWLINE)]
\* entries that do not
E_SHORT3 == [lemma |-> PyStr(W_SHORT3), id |-> PyStr(<<"4">>)]
E_LONG8 == [lemma |-> PyStr(W_LONG8), id |-> PyStr(<<"5">>)]
E_LATIN == [lemma |-> PyStr(W_LATIN), id |-> PyStr(<<"6">>)]
E_BLANK == [lemma |-> PyStr(<<"SP">>), id |-> PyStr(<<"7">>)]
E_EMPTY == <<>>

DailyEntries ==
    { E_KITAB_1, E_BABA_1, E_KITAB_2, E_KATABA, E_LONG7, E_NEWLINE,
      E_SHORT3, E_LONG8, E_LATIN, E_BLANK, E_EMPTY }

\* a call of the client: it returns data or raises; NotCalled stands for
\* the outcome of a call that is not made
Returned(data) == [ok |-> TRUE, data |-> data]
Raised == [ok |-> FALSE, data |-> None]
NotCalled == [ok |-> TRUE, data |-> None]

D_BY_ID == <<"b", "o", "o", "k">>
D_BY_QUERY == <<"t", "o", "m", "e">>

\* get_senses(entry_id, lexicon_id): a payload with a definition, one without
SensesByIdOutcomes ==
    { Returned(PyList(<<PyDict([senses |-> PyList(<<PyStr(D_BY_ID)>>)])>>)),
      Returned(PyList(<<>>)),
      Raised }

\* get_senses_by_query(word, lexicon_id)
SensesByQueryOutcomes ==
    { Returned(PyList(<<PyStr(<<"SP">> \o D_BY_QUERY)>>)),
      Returned(PyList(<<PyDict([lemma |-> PyStr(W_KITAB)])>>)),
      Raised }

\* find_lexicon_id(): an identifier, or an exception
LEX_RIYADH == PyStr(<<"R", "i", "y", "a", "d", "h">>)
LexiconOutcomes == {Returned(LEX_RIYADH), Raised}

\* count_candidates(): a total, or an exception
CountOutcomes == {Returned(PyInt(0)), Returned(PyInt(2)), Raised}

(* ------------------------------------------------------------------ *)
(* The scan of one entry (main.py 257-282)                             *)
(* ------------------------------------------------------------------ *)
Cand(word, definition, eid) == [word |-> word, definition |-> definition, eid |-> eid]

\* main.py 259-262: the headword filters, on the entry examined as x
PassesFilters(x, lo, hi) ==
    /\ x.word # <<>>
    /\ x.letters
    /\ lo <= x.L
    /\ x.L <= hi

\* main.py 266: the exclusion set of a refresh
Excluded(word, eid, exclude_words, exclude_entry_ids) ==
    word \in exclude_words \/ (eid # None /\ eid \in exclude_entry_ids)

\* main.py 271: the lookup by entry id is made when the entry has an id
LooksUpById(eid) == eid # None

\* a sense lookup: by entry id or by word; what it gave: a definition,
\* nothing, or an exception
Lookup(by, gave) == [by |-> by, gave |-> gave]

\* a lookup by word that is made whatever the first lookup gave
AlwaysLooksUpByQuery(definition) == TRUE

\* main.py 274: the lookup by word is made when there is no definition yet
LooksUpByQuery(definition) == definition = None

\* main.py 270-276: the definition of an entry, entry id first, then the
\* word; lookups lists the sense lookups issued, raised says one of them failed
ResolveDefinition(eid, sId, sQ) ==
    LET byId == IF LooksUpById(eid) /\ sId.ok
                THEN extract_definition_from_senses(sId.data) ELSE None
        byQuery == IF sQ.ok THEN extract_definition_from_senses(sQ.data) ELSE None
        first == IF ~LooksUpById(eid) THEN <<>>
                 ELSE << Lookup("id", IF ~sId.ok THEN "raised"
                                      ELSE IF byId # None THEN "definition"
                                      ELSE "nothing") >>
    IN IF LooksUpById(eid) /\ ~sId.ok
       THEN [raised |-> TRUE, definition |-> None, lookups |-> first]
       ELSE IF ~LooksUpByQuery(byId)
       THEN [raised |-> FALSE, definition |-> byId, lookups |-> first]
       ELSE IF ~sQ.ok
       THEN [raised |-> TRUE, definition |-> None,
             lookups |-> Append(first, Lookup("query", "raised"))]
       ELSE [raised |-> FALSE, definition |-> byQuery,
             lookups |-> Append(first, Lookup("query", IF byQuery # None
                                                       THEN "definition"
                                                       ELSE "nothing"))]

\* main.py 279: an entry with a definition ends the scan
ScanReturnsNow(definition) == definition # None

\* the outcomes the upstream can give to the sense lookups made for entry
\* (a lookup that is not made has the outcome NotCalled; none is made for a
\* headword that is empty or not of Arabic letters, main.py 259-260, 451)
LookupOutcomes(entry) ==
    LET word == normalize_word(entry)
        eid == normalize_entry_id(entry)
        reached == word # <<>> /\ is_ar_letters_only(word)
        ids == IF reached /\ LooksUpById(eid) THEN SensesByIdOutcomes ELSE {NotCalled}
        queries(sId) ==
            IF reached /\ sId.ok
                  /\ LooksUpByQuery(extract_definition_from_senses(sId.data))
            THEN SensesByQueryOutcomes ELSE {NotCalled}
    IN UNION {{<<sId, sQ>> : sQ \in queries(sId)} : sId \in ids}

\* what the code derives from an entry and the outcomes of its lookups:
\* the headword, whether it is of Arabic letters, its bare length, the entry
\* id and the definition the lookups resolve to
Examine(entry, sId, sQ) ==
    [word |-> normalize_word(entry),
     letters |-> is_ar_letters_only(normalize_word(entry)),
     L |-> base_len_ar(normalize_word(entry)),
     eid |-> normalize_entry_id(entry),
     res |-> ResolveDefinition(normalize_entry_id(entry), sId, sQ)]

Examined(entries) ==
    UNION {{Examine(entry, ss[1], ss[2]) : ss \in LookupOutcomes(entry)} :
             entry \in entries}

DailyExamined == Examined(DailyEntries)

\* One iteration of the loop of _scan_entries_for_candidate on the entry
\* examined as x, with best_valid as it stands.  kind: "skip" (continue),
\* "raise", "return" (cand is returned) or "keep" (best_valid is updated).
ScanStep(best_valid_, x, exclude_words, exclude_entry_ids) ==
    LET word == x.word
        eid == x.eid
    IN IF ~PassesFilters(x, MIN_LEN, MAX_LEN)
       THEN [kind |-> "skip", cand |-> None, best_valid |-> best_valid_, lookups |-> <<>>]
       ELSE IF Excluded(word, eid, exclude_words, exclude_entry_ids)
       THEN [kind |-> "skip", cand |-> None, best_valid |-> best_valid_, lookups |-> <<>>]
       ELSE
       LET res == x.res
           cand == Cand(word, res.definition, eid)
       IN IF res.raised
          THEN [kind |-> "raise", cand |-> None, best_valid |-> best_valid_,
                lookups |-> res.lookups]
          ELSE IF ScanReturnsNow(res.definition)
          THEN [kind |-> "return", cand |-> cand, best_valid |-> best_valid_,
                lookups |-> res.lookups]
          ELSE [kind |-> "keep", cand |-> None,
                best_valid |-> IF best_valid_ = None THEN cand ELSE best_valid_,
                lookups |-> res.lookups]

\* the loop of _scan_entries_for_candidate over the rest of the batch
RECURSIVE ScanFrom(_, _, _, _)
ScanFrom(best_valid_, batch, exclude_words, exclude_entry_ids) ==
    IF batch = <<>> THEN [kind |-> "return", cand |-> best_valid_]
    ELSE LET st == ScanStep(best_valid_, Head(batch), exclude_words, exclude_entry_ids)
         IN IF st.kind \in {"return", "raise"} THEN [kind |-> st.kind, cand |-> st.cand]
            ELSE ScanFrom(st.best_valid, Tail(batch), exclude_words, exclude_entry_ids)

\* the batch scanned from its end
ScanReversed(batch, exclude_words, exclude_entry_ids) ==
    ScanFrom(None, [i \in 1..Len(batch) |-> batch[Len(batch) + 1 - i]],
             exclude_words, exclude_entry_ids)

\* main.py 247-284: what the scan of a batch returns, or that it raises
_scan_entries_for_candidate(batch, exclude_words, exclude_entry_ids) ==
    ScanFrom(None, batch, exclude_words, exclude_entry_ids)

(* ------------------------------------------------------------------ *)
(* The daily cache (models.py DailyWordCache) and the responses        *)
(* ------------------------------------------------------------------ *)
TODAY == "today"
YESTERDAY == "yesterday"

Row(ymd, cand, lexicon) ==
    [ymd |-> ymd, word |-> cand.word, definition |-> cand.definition,
     entry_id |-> cand.eid, lexicon_id |-> lexicon]

\* select(DailyWordCache).where(DailyWordCache.ymd == ymd)
RowsFor(tbl, ymd) == {row \in tbl : row.ymd = ymd}

\* scalar_one_or_none(): the row, None when there is none
ScalarOneOrNone(rows) == IF rows = {} THEN None ELSE CHOOSE row \in rows : TRUE

\* delete(DailyWordCache).where(DailyWordCache.ymd == ymd)
DeleteRows(tbl, ymd) == {row \in tbl : row.ymd # ymd}

\* INSERT OR REPLACE: the stored row is overwritten
InsertOrReplace(tbl, row) == DeleteRows(tbl, row.ymd) \cup {row}

\* a plain INSERT that takes no notice of the row already there
InsertPlain(tbl, row) == tbl \cup {row}

\* insert(...).on_conflict_do_nothing(index_elements=["ymd"])
InsertRow(tbl, row) == IF RowsFor(tbl, row.ymd) # {} THEN tbl ELSE tbl \cup {row}

\* a response that leaves the lexicon id out
ResponseWithoutLexicon(ymd, row) ==
    [date |-> ymd, word |-> row.word, definition |-> row.definition,
     entry_id |-> row.entry_id, lexicon_id |-> None]

\* main.py 299-305: the response built from the cached row
CachedResponse(ymd, row) ==
    [date |-> ymd, word |-> row.word, definition |-> row.definition,
     entry_id |-> row.entry_id, lexicon_id |-> row.lexicon_id]

\* main.py 381-387: the response built from the row read back
SavedResponse(ymd, row) ==
    [date |-> ymd, word |-> row.word, definition |-> row.definition,
     entry_id |-> row.entry_id, lexicon_id |-> row.lexicon_id]

\* a cache that is consulted on refresh only
CacheHitOnRefresh(row, refresh_) == row # None /\ refresh_

\* main.py 298: the cached record is returned as it is
CacheHit(row, refresh_) == row # None /\ ~refresh_

\* a refresh that leaves the row of today in place
NeverClears(row, refresh_) == FALSE

\* main.py 308: a refresh clears today's row
ClearsRow(row, refresh_) == refresh_ /\ row # None

\* main.py 319-320: the exclusion sets of a refresh
ExcludeWords(row) == IF row # None THEN {row.word} ELSE {}
ExcludeEids(row) ==
    IF row # None /\ row.entry_id # None THEN {row.entry_id} ELSE {}

(* ------------------------------------------------------------------ *)
(* The attempt loop of daily_word (main.py 323-369) as steps on its    *)
(* local state L = [pc, attempt, chosen, best_valid, why]              *)
(* ------------------------------------------------------------------ *)
LoopStart ==
    [pc |-> "attempt", attempt |-> 0, chosen |-> None, best_valid |-> None,
     why |-> "none"]

\* a count that is never taken for empty
AnyTotal(n) == FALSE

\* main.py 316: no candidate to draw from
NoEntries(n) == n.n <= 0

\* the request ends with HTTPException(502)
Failed(why) ==
    [pc |-> "done", attempt |-> 0, chosen |-> None, best_valid |-> None, why |-> why]

\* attempts that are always used up
AttemptNeverBreaks(cand) == FALSE

\* main.py 347-348: a candidate with a definition ends the attempts
AttemptBreaks(cand) == cand # None /\ cand.definition # None

\* main.py 343-348, 360-364: what the attempt does with the scan's result
ScanReturned(L, cand) ==
    [L EXCEPT !.chosen = IF cand # None THEN cand ELSE @,
              !.best_valid = None,
              !.pc = IF AttemptBreaks(cand) THEN "insert" ELSE "attempt"]

\* an attempt that is not counted
FetchWithoutCounting(L, ok, batch_mode) ==
    IF ok \/ ~batch_mode
    THEN [L EXCEPT !.best_valid = None, !.pc = "scan"]
    ELSE Failed("upstream")

\* main.py 325-341, 351-359: the next attempt fetches a batch, or, without
\* search_batch, probes a window entry by entry and drops the probes that fail
FetchBatchStep(L, ok, batch_mode) ==
    IF ok \/ ~batch_mode
    THEN [L EXCEPT !.attempt = @ + 1, !.best_valid = None, !.pc = "scan"]
    ELSE Failed("upstream")

\* main.py 257-282: the scan examines the next entry of the batch
ScanEntryStep(L, x, exclude_words, exclude_entry_ids) ==
    LET st == ScanStep(L.best_valid, x, exclude_words, exclude_entry_ids)
    IN CASE st.kind = "raise" -> Failed("upstream")
         [] st.kind = "return" -> ScanReturned(L, st.cand)
         [] OTHER -> [L EXCEPT !.best_valid = st.best_valid]

\* main.py 284: the batch is exhausted, the scan returns best_valid
ScanEndStep(L) == ScanReturned(L, L.best_valid)

\* attempts used up are a failure, whatever they found
LoopEndFails(L) == Failed("no suitable word")

\* main.py 366-369: the attempts are used up
LoopEndStep(L) ==
    IF L.chosen = None THEN Failed("no suitable word") ELSE [L EXCEPT !.pc = "insert"]

(* ------------------------------------------------------------------ *)
(* State                                                               *)
(* ------------------------------------------------------------------ *)
Req == {1, 2}

VARIABLES
    table,        \* daily_word_cache: a set of rows
    has_batch,    \* hasattr(client, "search_batch")
    pc,           \* where each request stands
    refresh,      \* its refresh flag
    existing,     \* the row it loaded
    lexicon_id,
    attempt,      \* iterations of the attempt loop begun
    chosen,
    best_valid,   \* of the scan in progress
    result,       \* the response body, None before it and on failure
    status,       \* 0 while running, then the HTTP status
    detail,       \* which failure a 502 reports
    called,       \* this request has issued an upstream call
    stored,       \* this request has executed its insert
    found,        \* the candidate with a definition the scan came upon
    went_on,      \* the request searched or examined after that
    disturbed,    \* today's row was deleted while the request was in flight
    last,         \* the response last returned for today and not refreshed since
    total,        \* what count_candidates returned, None before it
    fallback,     \* the scan examined a valid entry that has no definition
    upstream_error \* the upstream call of this request that raised, "none" if none

\* list_words and _collect_words
VARIABLES
    w_pc,         \* where the request for words stands
    count,        \* its parameters
    min_len,
    max_len,
    have,         \* the triples collected so far
    seen_words,
    seen_eids,
    attempts,
    w_status,     \* 0 while running, then the HTTP status
    items,        \* items of the response, empty before it and on failure
    event,        \* what the scan made of the entry it examined last
    w_total,      \* what count_candidates returned, None before it
    w_upstream_error \* the upstream call of the request that raised, "none" if none

dailyVars ==
    << table, pc, refresh, existing, lexicon_id, attempt, chosen, best_valid,
       result, status, detail, called, stored, found, went_on, disturbed, last,
       total, fallback, upstream_error >>

\* what the stepwise actions record of a request beyond the code's own state
traceVars == <<total, fallback, upstream_error>>

wordsVars ==
    << w_pc, count, min_len, max_len, have, seen_words, seen_eids, attempts,
       w_status, items, event, w_total, w_upstream_error >>

w_traceVars == <<w_total, w_upstream_error>>

\* one call of the client (ksaa_client.py) or of the builder's own helpers
\* (build_365.py), request by request
VARIABLES
    c_pc,         \* "idle", "wait" (a request is in flight) or "done"
    c_op,         \* the function called
    c_arg,        \* its argument: the query, the entry id, the configured id
    c_sent,       \* the requests sent so far
    c_got,        \* the replies to them
    c_out         \* what the call returned or raised

clientVars == <<c_pc, c_op, c_arg, c_sent, c_got, c_out>>

\* one entry examined by one of the three loops that resolve definitions
VARIABLES
    l_who,        \* "scan", "collect" or "builder"; "none" before
    l_x,          \* the entry, as examined
    l_rejected,   \* a filter, an exclusion or a duplicate check rejected it
    l_lookups     \* the sense lookups issued for it, in order

lookupVars == <<l_who, l_x, l_rejected, l_lookups>>

\* one call of a pure helper
VARIABLES
    h_pc,         \* "idle", "call" or "done"
    h_fn,         \* the helper called; "none" before
    h_in,         \* its argument
    h_out         \* what it returned

helperVars == <<h_pc, h_fn, h_in, h_out>>

\* one run of the year-plan builder (build_365.py main)
VARIABLES
    b_pc,          \* "idle", "loop", "page", "done" or "failed"
    year_words,    \* the committed rows of the plan
    collected,     \* (word, bare, len, entry_id, senses), in collection order
    b_attempts,    \* attempts
    b_used_words,  \* used_words
    b_used_eids    \* used_eids

buildVars == <<b_pc, year_words, collected, b_attempts, b_used_words, b_used_eids>>

\* what the actions of one part leave alone
notDaily == <<wordsVars, clientVars, lookupVars, helperVars, buildVars>>
notWords == <<has_batch, dailyVars, clientVars, lookupVars, helperVars, buildVars>>
notClient == <<has_batch, dailyVars, wordsVars, lookupVars, helperVars, buildVars>>
notLookups == <<has_batch, dailyVars, wordsVars, clientVars, helperVars, buildVars>>
notHelpers == <<has_batch, dailyVars, wordsVars, clientVars, lookupVars, buildVars>>
notBuild == <<has_batch, dailyVars, wordsVars, clientVars, lookupVars, helperVars>>

vars == <<has_batch, dailyVars, wordsVars, clientVars, lookupVars, helperVars, buildVars>>

\* rows an earlier day or an earlier request can have left in the cache
STORED_KITAB ==
    Row(TODAY, Cand(W_KITAB, PyStr(D_BY_ID), PyStr(<<"1">>)), LEX_RIYADH)
STORED_KATABA == Row(TODAY, Cand(W_KATABA, None, None), LEX_RIYADH)
STORED_YESTERDAY ==
    Row(YESTERDAY, Cand(W_BABA, PyStr(D_BY_QUERY), PyStr(<<"1">>)), LEX_RIYADH)

InitRequests ==
    /\ pc = [r \in Req |-> "idle"]
    /\ refresh = [r \in Req |-> FALSE]
    /\ existing = [r \in Req |-> None]
    /\ lexicon_id = [r \in Req |-> None]
    /\ attempt = [r \in Req |-> 0]
    /\ chosen = [r \in Req |-> None]
    /\ best_valid = [r \in Req |-> None]
    /\ result = [r \in Req |-> None]
    /\ status = [r \in Req |-> 0]
    /\ detail = [r \in Req |-> "none"]
    /\ called = [r \in Req |-> FALSE]
    /\ found = [r \in Req |-> None]
    /\ went_on = [r \in Req |-> FALSE]
    /\ stored = [r \in Req |-> FALSE]
    /\ disturbed = [r \in Req |-> FALSE]
    /\ last = None
    /\ total = [r \in Req |-> None]
    /\ fallback = [r \in Req |-> FALSE]
    /\ upstream_error = [r \in Req |-> "none"]

\* no request for words yet; the parameters stand at their least values
InitWordsIdle ==
    /\ w_pc = "idle"
    /\ count = 1
    /\ min_len = MIN_LEN
    /\ max_len = MAX_LEN
    /\ have = <<>>
    /\ seen_words = {}
    /\ seen_eids = {}
    /\ attempts = 0
    /\ w_status = 0
    /\ items = <<>>
    /\ event = "none"
    /\ w_total = None
    /\ w_upstream_error = "none"

\* no entry examined yet
InitLookupsIdle ==
    /\ l_who = "none"
    /\ l_x = None
    /\ l_rejected = FALSE
    /\ l_lookups = <<>>

\* the builder has not run
InitBuildIdle ==
    /\ b_pc = "idle"
    /\ year_words = {}
    /\ collected = <<>>
    /\ b_attempts = 0
    /\ b_used_words = {}
    /\ b_used_eids = {}

\* no helper called yet
InitHelpersIdle ==
    /\ h_pc = "idle"
    /\ h_fn = "none"
    /\ h_in = None
    /\ h_out = None

\* no call of the client in progress
InitClientIdle ==
    /\ c_pc = "idle"
    /\ c_op = "none"
    /\ c_arg = None
    /\ c_sent = <<>>
    /\ c_got = <<>>
    /\ c_out = [kind |-> "none", value |-> None, error |-> "none"]

(* ------------------------------------------------------------------ *)
(* daily_word (main.py 287-392), one action per step between awaits    *)
(* ------------------------------------------------------------------ *)
Loop(r) ==
    [pc |-> pc[r], attempt |-> attempt[r], chosen |-> chosen[r],
     best_valid |-> best_valid[r], why |-> detail[r]]

SetLoop(r, L) ==
    /\ pc' = [pc EXCEPT ![r] = L.pc]
    /\ attempt' = [attempt EXCEPT ![r] = L.attempt]
    /\ chosen' = [chosen EXCEPT ![r] = L.chosen]
    /\ best_valid' = [best_valid EXCEPT ![r] = L.best_valid]
    /\ detail' = [detail EXCEPT ![r] = L.why]
    /\ status' = [status EXCEPT ![r] = IF L.pc = "done" THEN 502 ELSE status[r]]
    /\ lexicon_id' = [lexicon_id EXCEPT ![r] = IF L.pc = "done" THEN None ELSE @]

\* main.py 292: a request arrives
Start(r, refresh_) ==
    /\ UNCHANGED notDaily
    /\ pc[r] \in {"idle", "done"}
    /\ pc' = [pc EXCEPT ![r] = "load"]
    /\ refresh' = [refresh EXCEPT ![r] = refresh_]
    /\ existing' = [existing EXCEPT ![r] = None]
    /\ result' = [result EXCEPT ![r] = None]
    /\ status' = [status EXCEPT ![r] = 0]
    /\ detail' = [detail EXCEPT ![r] = "none"]
    /\ called' = [called EXCEPT ![r] = FALSE]
    /\ stored' = [stored EXCEPT ![r] = FALSE]
    /\ lexicon_id' = [lexicon_id EXCEPT ![r] = None]
    /\ chosen' = [chosen EXCEPT ![r] = None]
    /\ found' = [found EXCEPT ![r] = None]
    /\ went_on' = [went_on EXCEPT ![r] = FALSE]
    /\ disturbed' = [disturbed EXCEPT ![r] = FALSE]
    /\ total' = [total EXCEPT ![r] = None]
    /\ fallback' = [fallback EXCEPT ![r] = FALSE]
    /\ upstream_error' = [upstream_error EXCEPT ![r] = "none"]
    /\ UNCHANGED <<table, has_batch, attempt, best_valid, last>>

\* main.py 295-310: load today's row; return it, or go on to clear it or select
Load(r) ==
    /\ UNCHANGED notDaily
    /\ UNCHANGED traceVars
    /\ pc[r] = "load"
    /\ LET row == ScalarOneOrNone(RowsFor(table, TODAY))
       IN /\ existing' = [existing EXCEPT ![r] = row]
          /\ IF CacheHit(row, refresh[r])
             THEN /\ pc' = [pc EXCEPT ![r] = "done"]
                  /\ status' = [status EXCEPT ![r] = 200]
                  /\ result' = [result EXCEPT ![r] = CachedResponse(TODAY, row)]
                  /\ last' = CachedResponse(TODAY, row)
             ELSE /\ pc' = [pc EXCEPT ![r] =
                               IF ClearsRow(row, refresh[r]) THEN "delete" ELSE "lexicon"]
                  /\ UNCHANGED <<status, result, last>>
    /\ UNCHANGED << table, has_batch, refresh, lexicon_id, attempt, chosen,
                    best_valid, detail, called, stored, found, went_on, disturbed >>

\* main.py 309-310: delete today's row and commit
Delete(r) ==
    /\ UNCHANGED notDaily
    /\ UNCHANGED traceVars
    /\ pc[r] = "delete"
    /\ table' = DeleteRows(table, TODAY)
    /\ last' = None
    /\ disturbed' = [q \in Req |-> (q # r /\ pc[q] # "idle") \/ disturbed[q]]
    /\ pc' = [pc EXCEPT ![r] = "lexicon"]
    /\ UNCHANGED << has_batch, refresh, existing, lexicon_id, attempt, chosen,
                    best_valid, result, status, detail, called, stored, found,
                    went_on >>

\* main.py 314: resolve the lexicon
FindLexicon(r) ==
    /\ UNCHANGED notDaily
    /\ pc[r] = "lexicon"
    /\ called' = [called EXCEPT ![r] = TRUE]
    /\ \E out \in LexiconOutcomes :
          IF out.ok
          THEN /\ lexicon_id' = [lexicon_id EXCEPT ![r] = out.data]
               /\ pc' = [pc EXCEPT ![r] = "count"]
               /\ UNCHANGED <<attempt, chosen, best_valid, status, detail,
                              upstream_error>>
          ELSE /\ SetLoop(r, Failed("upstream"))
               /\ upstream_error' = [upstream_error EXCEPT ![r] = "lexicon"]
    /\ UNCHANGED <<total, fallback>>
    /\ UNCHANGED << table, has_batch, refresh, existing, result, stored, found,
                    went_on, disturbed, last >>

\* main.py 315-323: count the candidates; none is fatal
Count(r) ==
    /\ UNCHANGED notDaily
    /\ pc[r] = "count"
    /\ called' = [called EXCEPT ![r] = TRUE]
    /\ \E out \in CountOutcomes :
          /\ SetLoop(r, IF ~out.ok THEN Failed("upstream")
                        ELSE IF NoEntries(out.data) THEN Failed("no entries")
                        ELSE LoopStart)
          /\ total' = [total EXCEPT ![r] = IF out.ok THEN out.data ELSE None]
          /\ upstream_error' =
                [upstream_error EXCEPT ![r] = IF out.ok THEN @ ELSE "count"]
    /\ UNCHANGED fallback
    /\ UNCHANGED << table, has_batch, refresh, existing, result, stored, found,
                    went_on, disturbed, last >>

FetchBatch(r) ==
    /\ UNCHANGED notDaily
    /\ pc[r] = "attempt"
    /\ attempt[r] < MAX_RANDOM_TRIES
    /\ called' = [called EXCEPT ![r] = TRUE]
    /\ went_on' = [went_on EXCEPT ![r] = went_on[r] \/ found[r] # None]
    /\ \E ok \in BOOLEAN :
          /\ SetLoop(r, FetchBatchStep(Loop(r), ok, has_batch))
          /\ upstream_error' =
                [upstream_error EXCEPT ![r] =
                    IF ok THEN @ ELSE IF has_batch THEN "batch" ELSE "probe"]
    /\ UNCHANGED <<total, fallback>>
    /\ UNCHANGED << table, has_batch, refresh, existing, result, stored, found,
                    disturbed, last >>

ScanEntry(r) ==
    /\ UNCHANGED notDaily
    /\ pc[r] = "scan"
    /\ \E x \in DailyExamined :
          LET looked ==
                 ScanStep(best_valid[r], x, ExcludeWords(existing[r]),
                          ExcludeEids(existing[r])).lookups # <<>>
          IN /\ called' = [called EXCEPT ![r] = called[r] \/ looked]
             /\ went_on' = [went_on EXCEPT ![r] = went_on[r] \/ found[r] # None]
             /\ found' = [found EXCEPT ![r] =
                   IF found[r] = None /\ looked /\ ~x.res.raised
                         /\ x.res.definition # None
                   THEN Cand(x.word, x.res.definition, x.eid)
                   ELSE found[r]]
             /\ fallback' = [fallback EXCEPT ![r] =
                   fallback[r] \/ (looked /\ ~x.res.raised /\ x.res.definition = None)]
             /\ upstream_error' = [upstream_error EXCEPT ![r] =
                   IF looked /\ x.res.raised THEN "senses" ELSE @]
             /\ SetLoop(r, ScanEntryStep(Loop(r), x, ExcludeWords(existing[r]),
                                         ExcludeEids(existing[r])))
    /\ UNCHANGED total
    /\ UNCHANGED <<table, has_batch, refresh, existing, result, stored, disturbed, last>>

ScanEnd(r) ==
    /\ UNCHANGED notDaily
    /\ UNCHANGED traceVars
    /\ pc[r] = "scan"
    /\ SetLoop(r, ScanEndStep(Loop(r)))
    /\ UNCHANGED << table, has_batch, refresh, existing, result, called, stored,
                    found, went_on, disturbed, last >>

LoopEnd(r) ==
    /\ UNCHANGED notDaily
    /\ UNCHANGED traceVars
    /\ pc[r] = "attempt"
    /\ attempt[r] = MAX_RANDOM_TRIES
    /\ SetLoop(r, LoopEndStep(Loop(r)))
    /\ UNCHANGED << table, has_batch, refresh, existing, result, called, stored,
                    found, went_on, disturbed, last >>

\* main.py 371-376: insert today's row unless there is one, and commit
Insert(r) ==
    /\ UNCHANGED notDaily
    /\ UNCHANGED traceVars
    /\ pc[r] = "insert"
    /\ table' = InsertRow(table, Row(TODAY, chosen[r], lexicon_id[r]))
    /\ pc' = [pc EXCEPT ![r] = "readback"]
    /\ stored' = [stored EXCEPT ![r] = TRUE]
    /\ UNCHANGED << has_batch, refresh, existing, lexicon_id, attempt, chosen,
                    best_valid, result, status, detail, called, found, went_on,
                    disturbed, last >>

\* main.py 379-387: read the stored row back and return it; scalar_one()
\* raises when the row is gone, which line 391 turns into a 502
ReadBack(r) ==
    /\ UNCHANGED notDaily
    /\ UNCHANGED traceVars
    /\ pc[r] = "readback"
    /\ LET saved == ScalarOneOrNone(RowsFor(table, TODAY))
       IN IF saved = None
          THEN SetLoop(r, Failed("upstream")) /\ UNCHANGED <<result, last>>
          ELSE /\ pc' = [pc EXCEPT ![r] = "done"]
               /\ status' = [status EXCEPT ![r] = 200]
               /\ result' = [result EXCEPT ![r] = SavedResponse(TODAY, saved)]
               /\ last' = SavedResponse(TODAY, saved)
               /\ attempt' = [attempt EXCEPT ![r] = 0]
               /\ UNCHANGED <<lexicon_id, chosen, best_valid, detail>>
    /\ UNCHANGED << table, has_batch, refresh, existing, called, stored, found,
                    went_on, disturbed >>

(* ------------------------------------------------------------------ *)
(* SpecDaily: one call of daily_word, step by step                     *)
(* ------------------------------------------------------------------ *)
InitDaily ==
    /\ InitRequests
    /\ InitWordsIdle
    /\ InitClientIdle
    /\ InitLookupsIdle
    /\ InitBuildIdle
    /\ InitHelpersIdle
    /\ has_batch \in BOOLEAN
    /\ table \in {{}, {STORED_YESTERDAY}, {STORED_KITAB}, {STORED_KATABA}}

NextDaily ==
    \/ \E refresh_ \in BOOLEAN : pc[1] = "idle" /\ Start(1, refresh_)
    \/ Load(1)
    \/ Delete(1)
    \/ FindLexicon(1)
    \/ Count(1)
    \/ FetchBatch(1)
    \/ ScanEntry(1)
    \/ ScanEnd(1)
    \/ LoopEnd(1)
    \/ Insert(1)
    \/ ReadBack(1)

SpecDaily == InitDaily /\ [][NextDaily]_vars

(* ------------------------------------------------------------------ *)
(* SpecCache: concurrent and successive calls of daily_word.  The      *)
(* attempt loop touches nothing but its own locals and the upstream,   *)
(* so it is taken as one step: from LoopStart to any of the ends the   *)
(* steps above can reach.                                              *)
(* ------------------------------------------------------------------ *)
CacheEntries == {E_KITAB_1, E_KATABA, E_SHORT3}
CacheExamined == Examined(CacheEntries)

\* the steps of the loop from L
LoopSteps(L, entries, exclude_words, exclude_entry_ids, batch_mode) ==
    IF L.pc = "attempt"
    THEN IF L.attempt < MAX_RANDOM_TRIES
         THEN {FetchBatchStep(L, ok, batch_mode) : ok \in BOOLEAN}
         ELSE {LoopEndStep(L)}
    ELSE IF L.pc = "scan"
    THEN {ScanEndStep(L)} \cup
         {ScanEntryStep(L, x, exclude_words, exclude_entry_ids) : x \in entries}
    ELSE {}

RECURSIVE LoopReach(_, _, _, _, _, _)
LoopReach(frontier, seen, entries, exclude_words, exclude_entry_ids, batch_mode) ==
    LET next == UNION {LoopSteps(L, entries, exclude_words, exclude_entry_ids, batch_mode) :
                         L \in frontier} \ seen
    IN IF next = {} THEN seen
       ELSE LoopReach(next, seen \cup next, entries, exclude_words,
                      exclude_entry_ids, batch_mode)

\* the ends of the loop: pc "insert" with chosen, or "done" with the failure
LoopEnds(entries, exclude_words, exclude_entry_ids, batch_mode) ==
    { [L EXCEPT !.attempt = 0] :
        L \in { M \in LoopReach({LoopStart}, {LoopStart}, entries, exclude_words,
                                exclude_entry_ids, batch_mode) :
                  M.pc \in {"insert", "done"} } }

CacheExclusions ==
    { <<{}, {}>> } \cup
    { << {normalize_word(e)},
         IF normalize_entry_id(e) = None THEN {} ELSE {normalize_entry_id(e)} >> :
        e \in CacheEntries }

CacheLoopEnds ==
    [ex \in CacheExclusions, batch_mode \in BOOLEAN |->
        LoopEnds(CacheExamined, ex[1], ex[2], batch_mode)]

\* main.py 323-369: the whole attempt loop
Select(r) ==
    /\ UNCHANGED notDaily
    /\ UNCHANGED traceVars
    /\ pc[r] = "attempt"
    /\ called' = [called EXCEPT ![r] = TRUE]
    /\ \E L \in CacheLoopEnds[<<ExcludeWords(existing[r]), ExcludeEids(existing[r])>>,
                              has_batch] :
          SetLoop(r, L)
    /\ UNCHANGED << table, has_batch, refresh, existing, result, stored, found,
                    went_on, disturbed, last >>

InitCache ==
    /\ InitRequests
    /\ InitWordsIdle
    /\ InitClientIdle
    /\ InitLookupsIdle
    /\ InitBuildIdle
    /\ InitHelpersIdle
    /\ has_batch \in BOOLEAN
    /\ table \in {{}, {STORED_YESTERDAY}}

NextCache ==
    \E r \in Req :
        \/ \E refresh_ \in BOOLEAN : Start(r, refresh_)
        \/ Load(r)
        \/ Delete(r)
        \/ FindLexicon(r)
        \/ Count(r)
        \/ Select(r)
        \/ Insert(r)
        \/ ReadBack(r)

SpecCache == InitCache /\ [][NextCache]_vars

(* ------------------------------------------------------------------ *)
(* SpecRefresh: successive calls of daily_word, one at a time          *)
(* ------------------------------------------------------------------ *)
InitRefresh ==
    /\ InitRequests
    /\ InitWordsIdle
    /\ InitClientIdle
    /\ InitLookupsIdle
    /\ InitBuildIdle
    /\ InitHelpersIdle
    /\ has_batch \in BOOLEAN
    /\ table \in {{}, {STORED_YESTERDAY}}

NextRefresh ==
    \/ \E refresh_ \in BOOLEAN : Start(1, refresh_)
    \/ Load(1)
    \/ Delete(1)
    \/ FindLexicon(1)
    \/ Count(1)
    \/ Select(1)
    \/ Insert(1)
    \/ ReadBack(1)

SpecRefresh == InitRefresh /\ [][NextRefresh]_vars

(* ------------------------------------------------------------------ *)
(* SpecWords: one call of list_words (main.py 487-544) with the        *)
(* collector _collect_words (main.py 395-484), entry by entry          *)
(* ------------------------------------------------------------------ *)
MaxCount == 2
\* a count whose budget is above COLLECT_ATTEMPTS_MIN
LargeCount == 11

\* (min_len, max_len): the defaults, a low window, and one that is refused
Windows == {<<MIN_LEN, MAX_LEN>>, <<MIN_LEN - 2, MAX_LEN - 4>>, <<MAX_LEN, MIN_LEN>>}

\* (count, min_len, max_len) of the requests; the large count with the low window
WordsRequests ==
    {<<n, w[1], w[2]>> : n \in 1..MaxCount, w \in Windows} \cup
    {<<LargeCount, MIN_LEN - 2, MAX_LEN - 4>>}

WordsEntries == {E_KITAB_1, E_BABA_1, E_KITAB_2, E_KATABA, E_SHORT3, E_LATIN}
WordsExamined == Examined(WordsEntries)

Max(a, b) == IF a >= b THEN a ELSE b

\* main.py 414
max_attempts(need) == Max(COLLECT_ATTEMPTS_MIN, need * COLLECT_ATTEMPT_MULTIPLIER)

\* a loop that makes an attempt although the words are there
CollectOneMore(have_, need, attempts_) ==
    Len(have_) <= need /\ attempts_ < max_attempts(need)

\* main.py 417: the collector goes on
CollectGoesOn(have_, need, attempts_) ==
    Len(have_) < need /\ attempts_ < max_attempts(need)

\* a check of seen words that never finds one
WordNeverSeen(word, seen_words_) == FALSE

\* main.py 458
WordSeen(word, seen_words_) == word \in seen_words_

\* main.py 462
EidSeen(eid, seen_eids_) == eid # None /\ eid \in seen_eids_

\* a collector that takes an entry without a definition
DefinitionOptional(definition) == FALSE

\* main.py 473: /words requires a definition
DefinitionMissing(definition) == definition = None

\* One iteration of the scan of _collect_words (main.py 449-482) on the entry
\* examined as x.  kind: "skip" (continue), "raise" or "add".
CollectStep(have_, seen_words_, seen_eids_, x, lo, hi) ==
    LET word == x.word
        eid == x.eid
        same == [kind |-> "skip", have |-> have_, seen_words |-> seen_words_,
                 seen_eids |-> seen_eids_, lookups |-> <<>>]
        looked == [same EXCEPT !.lookups = x.res.lookups]
    IN IF word = <<>> \/ ~x.letters THEN same
       ELSE IF ~(lo <= x.L /\ x.L <= hi) THEN same
       ELSE IF WordSeen(word, seen_words_) THEN same
       ELSE IF EidSeen(eid, seen_eids_) THEN same
       ELSE IF x.res.raised THEN [looked EXCEPT !.kind = "raise"]
       ELSE IF DefinitionMissing(x.res.definition) THEN looked
       ELSE [kind |-> "add", lookups |-> x.res.lookups,
             have |-> Append(have_, Cand(word, x.res.definition, eid)),
             seen_words |-> seen_words_ \cup {word},
             seen_eids |-> IF eid # None THEN seen_eids_ \cup {eid} ELSE seen_eids_]

\* a list of words that is never too short
NeverTooFew(triples, n) == FALSE

\* main.py 516
TooFew(triples, n) == Len(triples) < n

\* main.py 524-532
WordItem(c) ==
    [word |-> c.word, bare |-> strip_diacritics(c.word),
     length |-> Len(strip_diacritics(c.word)), definition |-> c.definition,
     entry_id |-> c.eid]

\* the request ends with an HTTPException
WordsFail(code) ==
    /\ w_pc' = "done"
    /\ w_status' = code
    /\ items' = <<>>

\* a request whose window is not looked at
ListWordsUnchecked(n, lo, hi) ==
    /\ UNCHANGED w_traceVars
    /\ w_pc = "idle"
    /\ count' = n
    /\ min_len' = lo
    /\ max_len' = hi
    /\ w_pc' = "lexicon"
    /\ UNCHANGED <<w_status, items, have, seen_words, seen_eids, attempts, event>>
    /\ UNCHANGED notWords

\* main.py 488-495: a request arrives; min_len > max_len is refused
ListWords(n, lo, hi) ==
    /\ UNCHANGED w_traceVars
    /\ w_pc = "idle"
    /\ count' = n
    /\ min_len' = lo
    /\ max_len' = hi
    /\ IF lo > hi
       THEN WordsFail(400)
       ELSE w_pc' = "lexicon" /\ UNCHANGED <<w_status, items>>
    /\ UNCHANGED <<have, seen_words, seen_eids, attempts, event>>
    /\ UNCHANGED notWords

\* main.py 501
WordsFindLexicon ==
    /\ w_pc = "lexicon"
    /\ \E out \in LexiconOutcomes :
          IF out.ok
          THEN w_pc' = "count" /\ UNCHANGED <<w_status, items, w_upstream_error>>
          ELSE WordsFail(502) /\ w_upstream_error' = "lexicon"
    /\ UNCHANGED w_total
    /\ UNCHANGED <<count, min_len, max_len, have, seen_words, seen_eids, attempts, event>>
    /\ UNCHANGED notWords

\* main.py 502-504, 408-415: the total; then the collector starts
WordsCount ==
    /\ w_pc = "count"
    /\ \E out \in CountOutcomes :
          /\ w_total' = IF out.ok THEN out.data ELSE None
          /\ w_upstream_error' = IF out.ok THEN w_upstream_error ELSE "count"
          /\ IF ~out.ok \/ NoEntries(out.data)
             THEN WordsFail(502) /\ UNCHANGED <<have, seen_words, seen_eids, attempts>>
             ELSE
               /\ w_pc' = "attempt"
               /\ have' = <<>>
               /\ seen_words' = {}
               /\ seen_eids' = {}
               /\ attempts' = 0
               /\ UNCHANGED <<w_status, items>>
    /\ UNCHANGED <<count, min_len, max_len, event>>
    /\ UNCHANGED notWords

\* main.py 417-446: one more attempt; a batch that fails ends the request,
\* probes that fail are dropped
CollectFetch ==
    /\ w_pc = "attempt"
    /\ CollectGoesOn(have, count, attempts)
    /\ attempts' = attempts + 1
    /\ event' = "none"
    /\ \E ok \in BOOLEAN :
          /\ w_upstream_error' =
                IF ok THEN w_upstream_error ELSE IF has_batch THEN "batch" ELSE "probe"
          /\ IF ok \/ ~has_batch
             THEN w_pc' = "scan" /\ UNCHANGED <<w_status, items>>
             ELSE WordsFail(502)
    /\ UNCHANGED w_total
    /\ UNCHANGED <<count, min_len, max_len, have, seen_words, seen_eids>>
    /\ UNCHANGED notWords

\* main.py 449-482: the scan examines the next entry of the batch
CollectEntry ==
    /\ w_pc = "scan"
    /\ \E x \in WordsExamined :
          LET st == CollectStep(have, seen_words, seen_eids, x, min_len, max_len)
              valid == PassesFilters(x, min_len, max_len)
              dup == \E i \in 1..Len(have) :
                        \/ have[i].word = x.word
                        \/ x.eid # None /\ have[i].eid = x.eid
          IN /\ have' = st.have
             /\ seen_words' = st.seen_words
             /\ seen_eids' = st.seen_eids
             /\ event' = IF valid /\ dup THEN "duplicate"
                          ELSE IF valid /\ ~x.res.raised /\ x.res.definition = None
                          THEN "undefined"
                          ELSE "none"
             /\ w_upstream_error' =
                   IF st.kind = "raise" THEN "senses" ELSE w_upstream_error
             /\ IF st.kind = "raise"
                THEN WordsFail(502)
                ELSE /\ w_pc' = IF st.kind = "add" /\ Len(st.have) >= count
                                THEN "attempt" ELSE "scan"
                     /\ UNCHANGED <<w_status, items>>
    /\ UNCHANGED <<count, min_len, max_len, attempts, w_total>>
    /\ UNCHANGED notWords

\* main.py 449: the batch is exhausted
CollectBatchEnd ==
    /\ UNCHANGED w_traceVars
    /\ w_pc = "scan"
    /\ w_pc' = "attempt"
    /\ event' = "none"
    /\ UNCHANGED << count, min_len, max_len, have, seen_words, seen_eids, attempts,
                    w_status, items >>
    /\ UNCHANGED notWords

\* main.py 484, 516-539: the collector returns; too few is a 502
WordsReturn ==
    /\ UNCHANGED w_traceVars
    /\ w_pc = "attempt"
    /\ ~CollectGoesOn(have, count, attempts)
    /\ event' = "none"
    /\ IF TooFew(have, count)
       THEN WordsFail(502)
       ELSE /\ w_pc' = "done"
            /\ w_status' = 200
            /\ items' = [i \in 1..Len(have) |-> WordItem(have[i])]
    /\ UNCHANGED <<count, min_len, max_len, have, seen_words, seen_eids, attempts>>
    /\ UNCHANGED notWords

InitWords ==
    /\ InitRequests
    /\ InitWordsIdle
    /\ InitClientIdle
    /\ InitLookupsIdle
    /\ InitBuildIdle
    /\ InitHelpersIdle
    /\ has_batch \in BOOLEAN
    /\ table = {}

NextWords ==
    \/ \E q \in WordsRequests : ListWords(q[1], q[2], q[3])
    \/ WordsFindLexicon
    \/ WordsCount
    \/ CollectFetch
    \/ CollectEntry
    \/ CollectBatchEnd
    \/ WordsReturn

SpecWords == InitWords /\ [][NextWords]_vars

\* a batch is a finite list and every await returns: the scan of a batch
\* ends, the loop takes its next turn and the function returns
FairWords ==
    /\ SpecWords
    /\ WF_vars(CollectFetch)
    /\ WF_vars(CollectBatchEnd)
    /\ WF_vars(WordsReturn)

(* ------------------------------------------------------------------ *)
(* SpecEndpoints: one call of either endpoint, step by step            *)
(* ------------------------------------------------------------------ *)
\* a row is stored for today: daily_word selects on refresh only
InitEndpoints ==
    /\ InitRequests
    /\ InitWordsIdle
    /\ InitClientIdle
    /\ InitLookupsIdle
    /\ InitBuildIdle
    /\ InitHelpersIdle
    /\ has_batch \in BOOLEAN
    /\ table = {STORED_KITAB}

\* a request for one endpoint arrives when none for the other has
NextEndpoints ==
    \/ \E refresh_ \in BOOLEAN : pc[1] = "idle" /\ w_pc = "idle" /\ Start(1, refresh_)
    \/ Load(1)
    \/ Delete(1)
    \/ FindLexicon(1)
    \/ Count(1)
    \/ FetchBatch(1)
    \/ ScanEntry(1)
    \/ ScanEnd(1)
    \/ LoopEnd(1)
    \/ Insert(1)
    \/ ReadBack(1)
    \/ \E n \in 1..MaxCount : \E w \in Windows :
          pc[1] = "idle" /\ ListWords(n, w[1], w[2])
    \/ WordsFindLexicon
    \/ WordsCount
    \/ CollectFetch
    \/ CollectEntry
    \/ CollectBatchEnd
    \/ WordsReturn

SpecEndpoints == InitEndpoints /\ [][NextEndpoints]_vars

(* ------------------------------------------------------------------ *)
(* SpecFrame: calls of list_words one after another, then a call of    *)
(* daily_word, on one cache table                                      *)
(* ------------------------------------------------------------------ *)
FrameRequests == {<<1, MIN_LEN, MAX_LEN>>, <<1, MAX_LEN, MIN_LEN>>}

\* main.py 488-495: the next request arrives, with locals of its own
ListWordsAgain(n, lo, hi) ==
    /\ w_pc = "done"
    /\ count' = n
    /\ min_len' = lo
    /\ max_len' = hi
    /\ IF lo > hi
       THEN WordsFail(400)
       ELSE w_pc' = "lexicon" /\ w_status' = 0 /\ items' = <<>>
    /\ have' = <<>>
    /\ seen_words' = {}
    /\ seen_eids' = {}
    /\ attempts' = 0
    /\ event' = "none"
    /\ w_total' = None
    /\ w_upstream_error' = "none"
    /\ UNCHANGED notWords

InitFrame ==
    /\ InitRequests
    /\ InitWordsIdle
    /\ InitClientIdle
    /\ InitLookupsIdle
    /\ InitBuildIdle
    /\ InitHelpersIdle
    /\ has_batch \in BOOLEAN
    /\ table \in {{}, {STORED_KITAB}}

NextFrame ==
    \/ \E q \in FrameRequests : pc[1] = "idle" /\ ListWords(q[1], q[2], q[3])
    \/ \E q \in FrameRequests : pc[1] = "idle" /\ ListWordsAgain(q[1], q[2], q[3])
    \/ WordsFindLexicon
    \/ WordsCount
    \/ CollectFetch
    \/ CollectEntry
    \/ CollectBatchEnd
    \/ WordsReturn
    \/ \E refresh_ \in BOOLEAN : pc[1] = "idle" /\ w_pc = "done" /\ Start(1, refresh_)
    \/ Load(1)
    \/ Delete(1)
    \/ FindLexicon(1)
    \/ Count(1)
    \/ Select(1)
    \/ Insert(1)
    \/ ReadBack(1)

SpecFrame == InitFrame /\ [][NextFrame]_vars

(* ------------------------------------------------------------------ *)
(* The client (ksaa_client.py) and the builder's own HTTP helpers      *)
(* (build_365.py): every call is a list of request variants tried in   *)
(* order, and a rule for what each reply leads to                      *)
(* ------------------------------------------------------------------ *)
\* ksaa_client.py 11: the default seed character
DEFAULT_QUERY == <<"ALEF">>

\* a query that is sent as the caller gave it
QueryAsGiven(q) == q

\* ksaa_client.py 62-63
_q(q) == IF Truthy(q) /\ Strip(ToStr(q)) # <<>> THEN q ELSE PyStr(DEFAULT_QUERY)

\* build_365.py 163-164
_safe_query(q) == IF Truthy(q) /\ Strip(ToStr(q)) # <<>> THEN q ELSE PyStr(<<"ALEF">>)

\* ksaa_client.py 123, 131: query or DEFAULT_QUERY
QueryOrDefault(query) == Or(query, PyStr(DEFAULT_QUERY))

\* a GET: the path, the parameter names that tell the variants apart, the query
Request(path, key, query) == [path |-> path, key |-> key, query |-> query]

\* raise_for_status() and r.json(): the status, the body of a 200
Reply(code, body) == [status |-> code, body |-> body]

\* what a reply leads to: the next variant, a value returned, an exception
TryNext == [kind |-> "next", value |-> None, error |-> "none"]
Return(v) == [kind |-> "return", value |-> v, error |-> "none"]
Raise(error) == [kind |-> "raise", value |-> None, error |-> error]

\* every failure is taken for a refused variant
AnyFailure(code) == code # 200

\* ksaa_client.py 114, 150; build_365.py 198, 203: the variant was refused
Recoverable(code) == code \in {400, 404}

\* ksaa_client.py 108-119: offset/limit, then page/size
_search_try_both_requests(query) ==
    << Request("/public/search", "offset/limit", _q(query)),
       Request("/public/search", "page/size", _q(query)) >>

\* ksaa_client.py 108-120: the second request stands outside the try
_search_try_both_reply(i, reply) ==
    IF reply.status = 200 THEN Return(reply.body)
    ELSE IF i = 1 /\ Recoverable(reply.status) THEN TryNext
    ELSE Raise("HTTPStatusError")

\* build_365.py 172-177: page/size only
search_page_requests(query) ==
    << Request("/public/search", "page/size", _safe_query(query)) >>

\* build_365.py 178-185
search_page_reply(i, reply) ==
    IF reply.status # 200 THEN Raise("HTTPStatusError")
    ELSE IF IsList(reply.body) THEN Return(reply.body)
    ELSE IF IsList(Get(reply.body.d, "items")) THEN Return(Get(reply.body.d, "items"))
    ELSE IF IsList(Get(reply.body.d, "content")) THEN Return(Get(reply.body.d, "content"))
    ELSE Return(PyList(<<>>))

\* the parameter names in another order
get_senses_reordered ==
    << Request("/public/senses", "entryIds", None),
       Request("/public/senses", "entryId", None),
       Request("/public/senses", "lexicalEntryId", None) >>

\* ksaa_client.py 138-142
get_senses_requests ==
    << Request("/public/senses", "entryId", None),
       Request("/public/senses", "entryIds", None),
       Request("/public/senses", "lexicalEntryId", None) >>

\* ksaa_client.py 143-150: a body without a list of senses goes on to the
\* next variant, as a refused variant does
get_senses_reply(i, reply) ==
    IF reply.status = 200
    THEN IF IsList(reply.body) THEN Return(reply.body)
         ELSE IF IsList(Get(reply.body.d, "items")) THEN Return(Get(reply.body.d, "items"))
         ELSE IF IsList(Get(reply.body.d, "senses")) THEN Return(Get(reply.body.d, "senses"))
         ELSE TryNext
    ELSE IF Recoverable(reply.status) THEN TryNext
    ELSE Raise("HTTPStatusError")

\* ksaa_client.py 151: return []
get_senses_exhausted == Return(PyList(<<>>))

\* build_365.py 196, 201: entryId, then entryIds, each with lexiconId
senses_by_entry_requests ==
    << Request("/public/senses", "entryId", None),
       Request("/public/senses", "entryIds", None) >>

\* build_365.py 195-204: whatever a 200 carries is returned
senses_by_entry_reply(i, reply) ==
    IF reply.status = 200 THEN Return(reply.body)
    ELSE IF Recoverable(reply.status) THEN TryNext
    ELSE Raise("HTTPStatusError")

\* build_365.py 205: return []
senses_by_entry_exhausted == Return(PyList(<<>>))

\* KSAA_LEXICON_NAME (ksaa_client.py 8), two characters for the model
LEXICON_NAME == <<"M", "R">>

\* sub in s
RECURSIVE Contains(_, _)
Contains(s, sub) ==
    IF Len(s) < Len(sub) THEN FALSE
    ELSE IF SubSeq(s, 1, Len(sub)) = sub THEN TRUE
    ELSE Contains(Tail(s), sub)

\* ksaa_client.py 102
DisplayName(it) ==
    Or(Or(Or(Get(it, "name"), Get(it, "title")), Get(it, "arName")),
       Get(it, "displayName"))

\* ksaa_client.py 103
NameMatches(it) ==
    Truthy(DisplayName(it)) /\ Contains(DisplayName(it).s, LEXICON_NAME)

\* ksaa_client.py 104
LexiconIdOf(it) == Or(Get(it, "id"), Get(it, "lexiconId"))

\* a scan that returns the last lexicon that matches
RECURSIVE LastMatch(_)
LastMatch(listed) ==
    IF listed = <<>> THEN Raise("RuntimeError")
    ELSE IF NameMatches(listed[Len(listed)].d)
    THEN Return(LexiconIdOf(listed[Len(listed)].d))
    ELSE LastMatch(SubSeq(listed, 1, Len(listed) - 1))

\* ksaa_client.py 101-105
RECURSIVE find_lexicon_id_scan(_)
find_lexicon_id_scan(listed) ==
    IF listed = <<>> THEN Raise("RuntimeError")
    ELSE IF NameMatches(Head(listed).d) THEN Return(LexiconIdOf(Head(listed).d))
    ELSE find_lexicon_id_scan(Tail(listed))

\* ksaa_client.py 100
LexiconItems(data) ==
    IF IsList(data) THEN data.l
    ELSE IF "items" \in DOMAIN data.d THEN data.d.items.l
    ELSE <<>>

\* ksaa_client.py 97-99: no request when KSAA_LEXICON_ID is set
find_lexicon_id_requests(configured) ==
    IF Truthy(configured) THEN <<>>
    ELSE << Request("/public/lexicons", "none", None) >>

\* ksaa_client.py 99-105
find_lexicon_id_reply(i, reply) ==
    IF reply.status # 200 THEN Raise("HTTPStatusError")
    ELSE find_lexicon_id_scan(LexiconItems(reply.body))

\* the variants of a call, the rule for its replies, its end without a reply
\* that returned or raised
Requests(op, arg) ==
    CASE op = "_search_try_both" -> _search_try_both_requests(QueryOrDefault(arg))
      [] op = "search_page" -> search_page_requests(arg)
      [] op = "get_senses" -> get_senses_requests
      [] op = "senses_by_entry" -> senses_by_entry_requests
      [] op = "find_lexicon_id" -> find_lexicon_id_requests(arg)

OnReply(op, i, reply) ==
    CASE op = "_search_try_both" -> _search_try_both_reply(i, reply)
      [] op = "search_page" -> search_page_reply(i, reply)
      [] op = "get_senses" -> get_senses_reply(i, reply)
      [] op = "senses_by_entry" -> senses_by_entry_reply(i, reply)
      [] op = "find_lexicon_id" -> find_lexicon_id_reply(i, reply)

Exhausted(op) ==
    CASE op = "get_senses" -> get_senses_exhausted
      [] op = "senses_by_entry" -> senses_by_entry_exhausted

\* what the upstream can answer
\* ksaa_client.py 65-79; the least count of a list of items is 1
_collect_total(data) ==
    LET AtLeastOne(l) == IF Len(l) > 1 THEN Len(l) ELSE 1
    IN IF IsDict(data)
       THEN LET d == data.d
                pg == Get(d, "page")
            IN IF IsInt(Get(d, "total")) THEN d["total"].n
               ELSE IF IsInt(Get(d, "count")) THEN d["count"].n
               ELSE IF IsDict(pg) /\ IsInt(Get(pg.d, "totalElements"))
               THEN pg.d["totalElements"].n
               ELSE IF "items" \in DOMAIN d /\ IsList(d["items"])
               THEN AtLeastOne(d["items"].l)
               ELSE IF "content" \in DOMAIN d /\ IsList(d["content"])
               THEN AtLeastOne(d["content"].l)
               ELSE 0
       ELSE IF IsList(data) THEN AtLeastOne(data.l)
       ELSE 0

\* ksaa_client.py 122-128: data answers the search with limit 1, data2 the
\* search with limit 10 that is made when the first total is 0
count_candidates(data, data2) ==
    IF _collect_total(data) # 0 THEN _collect_total(data) ELSE _collect_total(data2)

SearchBodies == {PyDict([items |-> PyList(<<PyDict(E_KITAB_1)>>)]), PyList(<<>>)}

SensesBodies ==
    { PyList(<<PyStr(D_BY_ID)>>),
      PyDict([items |-> PyList(<<PyStr(D_BY_ID)>>)]),
      PyDict([senses |-> PyList(<<>>)]),
      PyDict([message |-> PyStr(D_BY_QUERY)]) }

L_RIYADH == PyDict([name |-> PyStr(<<"a", "M", "R">>), id |-> LEX_RIYADH])
L_TITLE == PyDict([title |-> PyStr(<<"M", "R", "b">>), lexiconId |-> PyStr(<<"T">>)])
L_OTHER == PyDict([name |-> PyStr(<<"R", "M">>), id |-> PyStr(<<"O">>)])
L_SHADOWED == PyDict([name |-> PyStr(<<"M">>), title |-> PyStr(<<"M", "R">>),
                      id |-> PyStr(<<"S">>)])
L_NO_ID == PyDict([displayName |-> PyStr(<<"M", "R">>)])
LexiconRecords == {L_RIYADH, L_TITLE, L_OTHER, L_SHADOWED, L_NO_ID}

LexiconLists ==
    {<<>>} \cup {<<a>> : a \in LexiconRecords}
           \cup {<<a, b>> : a \in LexiconRecords, b \in LexiconRecords}

LexiconBodies ==
    {PyList(l) : l \in LexiconLists} \cup
    { PyDict([items |-> PyList(<<L_OTHER, L_TITLE>>)]),
      PyDict([message |-> PyStr(D_BY_QUERY)]) }

Replies(path) ==
    {Reply(code, None) : code \in {400, 404, 500}} \cup
    {Reply(200, body) :
        body \in CASE path = "/public/search" -> SearchBodies
                   [] path = "/public/senses" -> SensesBodies
                   [] path = "/public/lexicons" -> LexiconBodies}

\* what the callers pass
Queries ==
    {None, PyStr(<<>>), PyStr(<<"SP">>), PyStr(<<"NL", "SP">>), PyStr(<<"KAF">>),
     PyStr(<<"SP", "KAF">>)}
EntryIds == {PyStr(<<"1">>), PyStr(<<"2">>)}
ConfiguredIds == {None, PyStr(<<>>), LEX_RIYADH}

\* a call begins: its first request is sent, or it returns without one
Call(op, arg) ==
    /\ c_pc = "idle"
    /\ c_op' = op
    /\ c_arg' = arg
    /\ IF Requests(op, arg) = <<>>
       THEN c_pc' = "done" /\ c_out' = Return(arg) /\ UNCHANGED c_sent
       ELSE c_pc' = "wait" /\ c_sent' = <<Requests(op, arg)[1]>> /\ UNCHANGED c_out
    /\ UNCHANGED c_got
    /\ UNCHANGED notClient

\* count_candidates and get_entry_by_index (ksaa_client.py 122-135)
CallSearchTryBoth == \E query \in Queries : Call("_search_try_both", query)
\* build_365.py 171
CallSearchPage == \E query \in Queries : Call("search_page", query)
\* ksaa_client.py 137
CallGetSenses == \E entry_id \in EntryIds : Call("get_senses", entry_id)
\* build_365.py 193
CallSensesByEntry == \E entry_id \in EntryIds : Call("senses_by_entry", entry_id)
\* ksaa_client.py 96
CallFindLexiconId == \E configured \in ConfiguredIds : Call("find_lexicon_id", configured)

\* the reply to the request in flight, and what the call does with it
HttpReply ==
    /\ c_pc = "wait"
    /\ \E reply \in Replies(c_sent[Len(c_sent)].path) :
          LET i == Len(c_sent)
              reqs == Requests(c_op, c_arg)
              st == OnReply(c_op, i, reply)
              end == IF st.kind = "next" /\ i = Len(reqs) THEN Exhausted(c_op) ELSE st
          IN /\ c_got' = Append(c_got, reply)
             /\ IF end.kind = "next"
                THEN c_sent' = Append(c_sent, reqs[i + 1]) /\ UNCHANGED <<c_pc, c_out>>
                ELSE c_pc' = "done" /\ c_out' = end /\ UNCHANGED c_sent
    /\ UNCHANGED <<c_op, c_arg>>
    /\ UNCHANGED notClient

InitClient ==
    /\ InitRequests
    /\ InitWordsIdle
    /\ InitClientIdle
    /\ InitLookupsIdle
    /\ InitBuildIdle
    /\ InitHelpersIdle
    /\ has_batch = FALSE
    /\ table = {}

NextClient ==
    \/ CallSearchTryBoth
    \/ CallSearchPage
    \/ CallGetSenses
    \/ CallSensesByEntry
    \/ CallFindLexiconId
    \/ HttpReply

SpecClient == InitClient /\ [][NextClient]_vars

(* ------------------------------------------------------------------ *)
(* SpecLookups: the sense lookups issued for one entry by the scan of  *)
(* daily_word, by the collector and by the year-plan builder           *)
(* ------------------------------------------------------------------ *)
\* build_365.py 293-303: what a lookup of the builder gives once
\* extract_definitions has read it; an exception counts as no senses
BuilderOutcomes == {"definition", "nothing", "raised"}

\* build_365.py 292-303: the word first, then the entry id
BuilderResolve(eid, sQ, sE) ==
    IF sQ = "definition"
    THEN [senses |-> TRUE, lookups |-> <<Lookup("query", sQ)>>]
    ELSE IF eid = None
    THEN [senses |-> FALSE, lookups |-> <<Lookup("query", sQ)>>]
    ELSE [senses |-> sE = "definition",
          lookups |-> <<Lookup("query", sQ), Lookup("id", sE)>>]

\* build_365.py 278-311: one iteration of the builder's loop over a page
BuilderStep(used_words, used_eids, x, sQ, sE) ==
    IF ~PassesFilters(x, MIN_LEN, MAX_LEN) THEN [kind |-> "skip", lookups |-> <<>>]
    ELSE IF x.word \in used_words THEN [kind |-> "skip", lookups |-> <<>>]
    ELSE IF x.eid # None /\ x.eid \in used_eids THEN [kind |-> "skip", lookups |-> <<>>]
    ELSE LET res == BuilderResolve(x.eid, sQ, sE)
         IN [kind |-> IF res.senses THEN "add" ELSE "skip", lookups |-> res.lookups]

\* words and entry ids excluded, seen or used before the entry is examined
LookupContexts ==
    { <<{}, {}>>, <<{W_KITAB}, {}>>, <<{}, {PyStr(<<"1">>)}>> }

\* the word or the entry id of x is in the context
InContext(x, ctx) == x.word \in ctx[1] \/ (x.eid # None /\ x.eid \in ctx[2])

Examines(who, x, rejected, lookups) ==
    /\ l_who' = who
    /\ l_x' = x
    /\ l_rejected' = rejected
    /\ l_lookups' = lookups
    /\ UNCHANGED notLookups

\* main.py 257-282
LookupScan ==
    \E x \in DailyExamined, ctx \in LookupContexts :
       Examines("scan", x, ~PassesFilters(x, MIN_LEN, MAX_LEN) \/ InContext(x, ctx),
                ScanStep(None, x, ctx[1], ctx[2]).lookups)

\* main.py 449-482
LookupCollect ==
    \E x \in DailyExamined, ctx \in LookupContexts,
       w \in {v \in Windows : v[1] <= v[2]} :
       Examines("collect", x, ~PassesFilters(x, w[1], w[2]) \/ InContext(x, ctx),
                CollectStep(<<>>, ctx[1], ctx[2], x, w[1], w[2]).lookups)

\* build_365.py 274-303
LookupBuilder ==
    \E x \in DailyExamined, ctx \in LookupContexts, sQ, sE \in BuilderOutcomes :
       Examines("builder", x, ~PassesFilters(x, MIN_LEN, MAX_LEN) \/ InContext(x, ctx),
                BuilderStep(ctx[1], ctx[2], x, sQ, sE).lookups)

InitLookups ==
    /\ InitRequests
    /\ InitWordsIdle
    /\ InitClientIdle
    /\ InitLookupsIdle
    /\ InitBuildIdle
    /\ InitHelpersIdle
    /\ has_batch = FALSE
    /\ table = {}

NextLookups ==
    \/ LookupScan
    \/ LookupCollect
    \/ LookupBuilder

SpecLookups == InitLookups /\ [][NextLookups]_vars

(* ------------------------------------------------------------------ *)
(* The pure helpers, each applied to one argument                      *)
(* ------------------------------------------------------------------ *)
MaxStrLen == 3
\* a base letter or two, diacritics of both ranges, white space, a Latin letter
HelperChars == {"KAF", "BEH", "FATHA", "DAGGER_ALEF", "SP", "NL", "a"}
HelperStrings == UNION {[1..n -> HelperChars] : n \in 0..MaxStrLen}

\* the values a headword field can hold: blank, padded, plain, no str, null
FieldValues ==
    {PyStr(<<"SP">>), PyStr(<<"SP", "KAF", "NL">>), PyStr(<<"BEH">>), PyInt(1), None}
NestedValues == {PyStr(<<"NL">>), PyStr(<<"TEH", "SP">>), PyStr(<<"ALEF">>)}
KeySets(keys, n) == {K \in SUBSET keys : Cardinality(K) <= n}
Range(f) == {f[i] : i \in DOMAIN f}
FormRecords ==
    {PyDict(f) : f \in UNION {[K -> NestedValues] : K \in KeySets(Range(FORM_KEYS), 2)}}
\* raw entries with up to two fields, or one field beside a nested "form"
HelperEntries ==
    UNION {[K -> FieldValues] : K \in KeySets(Range(WORD_KEYS), 2)} \cup
    {("form" :> form) @@ e :
        form \in FormRecords,
        e \in UNION {[K -> FieldValues] : K \in KeySets(Range(WORD_KEYS) \ {"form"}, 1)}}

\* response envelopes: each field absent or present, a number or not
Absent == [t |-> "absent"]
Field(k, v) == IF v = Absent THEN <<>> ELSE (k :> v)
SomeItems(n) == PyList([i \in 1..n |-> PyDict(<<>>)])
Envelopes ==
    {PyDict(Field("total", t) @@ Field("count", c) @@ Field("page", pg) @@
            Field("items", it) @@ Field("content", ct)) :
        t \in {Absent, PyInt(0), PyInt(3), PyStr(<<"3">>)},
        c \in {Absent, PyInt(2), None},
        pg \in {Absent, PyDict("totalElements" :> PyInt(4)), PyDict(<<>>)},
        it \in {Absent, SomeItems(0), SomeItems(2)},
        ct \in {Absent, SomeItems(0), SomeItems(1)}} \cup
    {SomeItems(0), SomeItems(3), None}
SecondEnvelopes ==
    {None, PyDict(<<>>), PyDict("items" :> SomeItems(0)), PyDict("total" :> PyInt(5)),
     SomeItems(2)}

\* batches of examined entries, with the exclusion sets of the scan
MaxBatch == 3
BatchExamined == Examined({E_KITAB_1, E_KATABA, E_SHORT3})
Batches == UNION {[1..n -> BatchExamined] : n \in 0..MaxBatch}
ScanInputs ==
    {[batch |-> b, exclude_words |-> ctx[1], exclude_entry_ids |-> ctx[2]] :
        b \in Batches, ctx \in {<<{}, {}>>, <<{W_KITAB}, {}>>, <<{}, {PyStr(<<"1">>)}>>}}

\* sense payloads: records built from the known fields, alone and in a list
REP_EN == PyDict([lang |-> PyStr(<<"e", "n">>), text |-> PyStr(<<"e">>)])
REP_AR == PyDict([lang |-> PyStr(<<"a", "r">>), value |-> PyStr(<<"SP", "r">>)])
REP_AR_BLANK == PyDict([lang |-> PyStr(<<"A", "R">>), text |-> PyStr(<<"SP">>)])
REP_ARA == PyDict([lang |-> PyStr(<<"a", "r", "a">>), text |-> PyStr(<<"t">>)])
SenseRecords ==
    {PyDict(Field("senses", se) @@ Field("definition", de) @@
            Field("definition_ar", da) @@ Field("gloss", gl) @@
            Field("representations", re) @@ Field("statementRepresentations", sr)) :
        se \in {Absent, PyList(<<>>), PyList(<<PyStr(<<"SP">>), PyStr(<<"s", "SP">>)>>)},
        de \in {Absent, PyStr(<<"d">>), PyDict([value |-> PyStr(<<"v">>)]),
                PyDict([text |-> PyStr(<<"SP">>)])},
        da \in {Absent, PyStr(<<"NL", "a">>)},
        gl \in {Absent, PyStr(<<"g">>)},
        re \in {Absent, PyList(<<REP_EN, REP_AR>>), PyList(<<REP_EN>>),
                PyList(<<REP_AR_BLANK, REP_EN>>)},
        sr \in {Absent, PyList(<<REP_ARA>>)}}
StringLists ==
    {PyList(l) : l \in {<<PyStr(<<"x">>)>>, <<PyStr(<<"SP", "x", "NL">>), PyStr(<<"y">>)>>,
                        <<PyStr(<<"SP">>), PyStr(<<"y">>)>>}}
SensePayloads ==
    SenseRecords \cup {PyList(<<r>>) : r \in SenseRecords} \cup
    {PyList(<<PyDict("gloss" :> PyStr(<<"g">>)), r>>) : r \in SenseRecords} \cup
    StringLists \cup {PyList(<<>>), None}

HelperInputs(fn) ==
    CASE fn \in {"strip_diacritics", "is_ar_letters_only"} -> HelperStrings
      [] fn \in {"normalize_word", "ksaa_normalize_word"} -> HelperEntries
      [] fn = "count_candidates" -> Envelopes \X SecondEnvelopes
      [] fn = "_scan_entries_for_candidate" -> ScanInputs
      [] fn = "extract_definition_from_senses" -> SensePayloads

HelperNames ==
    {"strip_diacritics", "is_ar_letters_only", "normalize_word", "ksaa_normalize_word",
     "count_candidates", "_scan_entries_for_candidate",
     "extract_definition_from_senses"}

\* the helper fn returns out for the argument drawn
Applies(fn, out) ==
    /\ h_pc = "call"
    /\ h_fn = fn
    /\ h_pc' = "done"
    /\ h_out' = out
    /\ UNCHANGED <<h_fn, h_in>>
    /\ UNCHANGED notHelpers

\* main.py 81, ksaa_client.py 16
ApplyStripDiacritics == Applies("strip_diacritics", strip_diacritics(h_in))
\* main.py 87, ksaa_client.py 22
ApplyIsArLettersOnly == Applies("is_ar_letters_only", is_ar_letters_only(h_in))
\* main.py 91
ApplyNormalizeWord == Applies("normalize_word", normalize_word(h_in))
\* ksaa_client.py 26
ApplyKsaaNormalizeWord == Applies("ksaa_normalize_word", ksaa_normalize_word(h_in))

\* ksaa_client.py 122
ApplyCountCandidates ==
    Applies("count_candidates", count_candidates(h_in[1], h_in[2]))

\* main.py 247
ApplyScanEntries ==
    Applies("_scan_entries_for_candidate",
            _scan_entries_for_candidate(h_in.batch, h_in.exclude_words,
                                        h_in.exclude_entry_ids))

\* main.py 125
ApplyExtractDefinition ==
    Applies("extract_definition_from_senses", extract_definition_from_senses(h_in))

InitHelpers ==
    /\ InitRequests
    /\ InitWordsIdle
    /\ InitClientIdle
    /\ InitLookupsIdle
    /\ InitBuildIdle
    /\ has_batch = FALSE
    /\ table = {}
    /\ h_pc = "call"
    /\ h_fn \in HelperNames
    /\ h_in \in HelperInputs(h_fn)
    /\ h_out = None

NextHelpers ==
    \/ ApplyStripDiacritics
    \/ ApplyIsArLettersOnly
    \/ ApplyNormalizeWord
    \/ ApplyKsaaNormalizeWord
    \/ ApplyCountCandidates
    \/ ApplyScanEntries
    \/ ApplyExtractDefinition

SpecHelpers == InitHelpers /\ [][NextHelpers]_vars

(* ------------------------------------------------------------------ *)
(* The year-plan builder (build_365.py main)                           *)
(* ------------------------------------------------------------------ *)
\* YEAR_TARGET_COUNT and SYNC_ATTEMPT_CAP of the environment, set low
TARGET_COUNT == 2
ATTEMPT_CAP == 3
\* build_365.py 311: the plan is staged every 50 words
STAGE_EVERY == 50

\* what extract_definitions makes of the payload of a sense lookup: a list
\* of strings, empty when the payload holds none or the lookup raised
SenseLists == {<<>>, <<D_BY_QUERY>>, <<D_BY_ID, D_BY_QUERY>>}

BuilderExamined == Examined({E_KITAB_1, E_BABA_1, E_KATABA, E_SHORT3})

\* a plan of an earlier run, larger than the one to build
OLD_PLAN ==
    {[day_index |-> i, word |-> W_LONG7, bare |-> strip_diacritics(W_LONG7),
      length |-> 7, entry_id |-> None, lexicon_id |-> LEX_RIYADH,
      definition |-> PyStr(D_BY_ID), senses |-> <<D_BY_ID>>] :
        i \in 1..(TARGET_COUNT + 1)}

\* build_365.py 208-211: TRUNCATE
clear_table(tbl) == {}

\* build_365.py 213-240: insert, or update the row of the day index
upsert_year_word(tbl, idx, c, lexicon) ==
    {row \in tbl : row.day_index # idx} \cup
    {[day_index |-> idx, word |-> c.word, bare |-> c.bare, length |-> c.length,
      entry_id |-> c.entry_id, lexicon_id |-> lexicon,
      definition |-> IF c.senses # <<>> THEN PyStr(c.senses[1]) ELSE None,
      senses |-> c.senses]}

\* build_365.py 312-313, 318-319: enumerate(collected, start=1)
RECURSIVE UpsertAll(_, _, _)
UpsertAll(tbl, listed, i) ==
    IF i > Len(listed) THEN tbl
    ELSE UpsertAll(upsert_year_word(tbl, i, listed[i], LEX_RIYADH), listed, i + 1)

\* build_365.py 261: the while loop goes on
BuildGoesOn == Len(collected) < TARGET_COUNT /\ b_attempts < ATTEMPT_CAP

\* build_365.py 257-259: the old plan is cleared and the clearing committed
BuildStart ==
    /\ b_pc = "idle"
    /\ b_pc' = "loop"
    /\ year_words' = clear_table(year_words)
    /\ UNCHANGED <<collected, b_attempts, b_used_words, b_used_eids>>
    /\ UNCHANGED notBuild

\* build_365.py 261-268: an attempt: a page with entries, an empty page, or
\* a search that raises, which ends the run with what was committed
BuildSearch ==
    /\ b_pc = "loop"
    /\ BuildGoesOn
    /\ b_attempts' = b_attempts + 1
    /\ \E page \in {"entries", "empty", "raised"} :
          b_pc' = CASE page = "entries" -> "page"
                    [] page = "empty" -> "loop"
                    [] page = "raised" -> "failed"
    /\ UNCHANGED <<year_words, collected, b_used_words, b_used_eids>>
    /\ UNCHANGED notBuild

\* build_365.py 270-308: the next entry of the page
BuildEntry ==
    /\ b_pc = "page"
    /\ Len(collected) < TARGET_COUNT
    /\ \E x \in BuilderExamined, sQ, sE \in SenseLists :
          LET senses == IF sQ # <<>> THEN sQ
                        ELSE IF x.eid # None THEN sE
                        ELSE <<>>
              skip == \/ ~PassesFilters(x, MIN_LEN, MAX_LEN)
                      \/ x.word \in b_used_words
                      \/ x.eid # None /\ x.eid \in b_used_eids
                      \/ senses = <<>>
          IN IF skip
             THEN UNCHANGED <<collected, b_used_words, b_used_eids>>
             ELSE /\ collected' =
                        Append(collected,
                               [word |-> x.word, bare |-> strip_diacritics(x.word),
                                length |-> x.L, entry_id |-> x.eid, senses |-> senses])
                  /\ b_used_words' = b_used_words \cup {x.word}
                  /\ b_used_eids' =
                        IF x.eid # None THEN b_used_eids \cup {x.eid} ELSE b_used_eids
    /\ UNCHANGED <<b_pc, year_words, b_attempts>>
    /\ UNCHANGED notBuild

\* build_365.py 270-272, 310-315: the page is done or the target reached;
\* the plan is staged when the number collected is a multiple of 50
BuildPageEnd ==
    /\ b_pc = "page"
    /\ b_pc' = "loop"
    /\ year_words' =
          IF Len(collected) # 0 /\ Len(collected) % STAGE_EVERY = 0
          THEN UpsertAll(year_words, collected, 1)
          ELSE year_words
    /\ UNCHANGED <<collected, b_attempts, b_used_words, b_used_eids>>
    /\ UNCHANGED notBuild

\* build_365.py 317-325: the loop is over; what was collected is stored
BuildFinish ==
    /\ b_pc = "loop"
    /\ ~BuildGoesOn
    /\ b_pc' = "done"
    /\ year_words' = UpsertAll(year_words, collected, 1)
    /\ UNCHANGED <<collected, b_attempts, b_used_words, b_used_eids>>
    /\ UNCHANGED notBuild

InitBuild ==
    /\ InitRequests
    /\ InitWordsIdle
    /\ InitClientIdle
    /\ InitLookupsIdle
    /\ InitHelpersIdle
    /\ has_batch = FALSE
    /\ table = {}
    /\ b_pc = "idle"
    /\ year_words \in {{}, OLD_PLAN}
    /\ collected = <<>>
    /\ b_attempts = 0
    /\ b_used_words = {}
    /\ b_used_eids = {}

NextBuild ==
    \/ BuildStart
    \/ BuildSearch
    \/ BuildEntry
    \/ BuildPageEnd
    \/ BuildFinish

SpecBuild == InitBuild /\ [][NextBuild]_vars

(* ------------------------------------------------------------------ *)
(* Properties of the daily cache (SpecCache)                           *)
(* ------------------------------------------------------------------ *)
\* the response that shows a stored row
Shows(row) ==
    [date |-> row.ymd, word |-> row.word, definition |-> row.definition,
     entry_id |-> row.entry_id, lexicon_id |-> row.lexicon_id]

\* a request that found no record for today, went through its insert and
\* saw no refresh delete the row meanwhile
FirstComer(r) ==
    pc[r] = "done" /\ stored[r] /\ existing[r] = None /\ ~disturbed[r]

\* C1: of requests for the same date that all started with no cached record,
\* none fails on the insert conflict, exactly one row is stored for the date
\* and every one of them returns that row, whatever candidate it had chosen.
C1_ConcurrentFirstRequests ==
    /\ \A r \in Req :
          FirstComer(r) =>
             /\ status[r] = 200
             /\ Cardinality(RowsFor(table, TODAY)) = 1
             /\ \E row \in RowsFor(table, TODAY) : result[r] = Shows(row)
    /\ \A r1, r2 \in Req :
          FirstComer(r1) /\ FirstComer(r2) => result[r1] = result[r2]

\* two first comers that had chosen different candidates
C1_Witness ==
    /\ FirstComer(1) /\ FirstComer(2)
    /\ chosen[1] # None /\ chosen[2] # None
    /\ chosen[1].word # chosen[2].word
    /\ result[1] = result[2]

\* C2: a request without refresh that finds a record for today returns that
\* record at once: it ends with the stored record as its response, has issued
\* no upstream call and leaves the cache table as it was.
C2_CachedRecordReturned ==
    [][ \A r \in Req :
          (pc[r] = "load" /\ pc'[r] # "load" /\ ~refresh[r]
              /\ RowsFor(table, TODAY) # {}) =>
             /\ pc'[r] = "done"
             /\ status'[r] = 200
             /\ \E row \in RowsFor(table, TODAY) : result'[r] = Shows(row)
             /\ ~called'[r]
             /\ table' = table ]_vars

\* a request answered from the record an earlier request stored
C2_Witness ==
    \E r \in Req :
       /\ pc[r] = "done" /\ ~refresh[r] /\ existing[r] # None
       /\ status[r] = 200 /\ ~called[r] /\ ~stored[r]
       /\ result[r] = Shows(existing[r])
       /\ \E q \in Req \ {r} : stored[q]

\* C3: a request without refresh returns the very response the last request
\* for the date returned (date, word, definition, entry id, lexicon id), unless
\* a refresh cleared the record in between; the earlier request may be the one
\* that selected and stored the record.
C3_SameResultAgain ==
    [][ \A r \in Req :
          (pc[r] # "done" /\ pc'[r] = "done" /\ status'[r] = 200
              /\ ~refresh[r] /\ last # None) =>
             result'[r] = last ]_vars

\* the first request selected and stored, the second was answered alike
C3_Witness ==
    \E r, q \in Req :
       /\ r # q
       /\ pc[r] = "done" /\ status[r] = 200 /\ stored[r] /\ existing[r] = None
       /\ ~refresh[r]
       /\ pc[q] = "done" /\ status[q] = 200 /\ ~refresh[q]
       /\ existing[q] # None /\ ~stored[q]
       /\ result[q] = result[r] /\ result[q] = last

\* C4: a refresh of a date that has a record returns a record whose word is
\* not the word that was cached before.
C4_RefreshChangesWord ==
    \A r \in Req :
       (pc[r] = "done" /\ status[r] = 200 /\ refresh[r] /\ existing[r] # None) =>
          result[r].word # existing[r].word

\* C5: the table never holds two records for a date, and a stored record is
\* replaced, modified or removed by nothing but the delete of a refresh for
\* its date: the insert of any other request is a no-op on conflict.
C5_OneRecordPerDate ==
    /\ [](\A ymd \in {TODAY, YESTERDAY} : Cardinality(RowsFor(table, ymd)) <= 1)
    /\ [][ \A row \in table :
             row \notin table' =>
                /\ row.ymd = TODAY
                /\ RowsFor(table', TODAY) = {}
                /\ \E r \in Req :
                      pc[r] = "delete" /\ pc'[r] # "delete" /\ refresh[r] ]_vars

\* a request without refresh whose insert met the record of another and
\* left it alone
C5_Witness ==
    \E r \in Req :
       /\ pc[r] = "readback" /\ ~refresh[r] /\ stored[r]
       /\ RowsFor(table, TODAY) # {}
       /\ Row(TODAY, chosen[r], lexicon_id[r]) \notin table
(* ------------------------------------------------------------------ *)
(* Properties of the daily selection (SpecDaily)                       *)
(* ------------------------------------------------------------------ *)
\* a headword of Arabic letters only, diacritics apart
PureArabic(word) ==
    LET b == FilterOut(word, ArDiacriticChars)
    IN b # <<>> /\ \A i \in 1..Len(b) : b[i] \in ArLetterChars

\* C8: every word a selector accepts is, after stripping diacritics, made of
\* Arabic letters only and has a bare length within the length window; a word
\* that fails either test is never chosen.
C8_AcceptedWordIsArabic ==
    \A r \in Req :
       chosen[r] # None =>
          /\ PureArabic(chosen[r].word)
          /\ MIN_LEN <= Len(FilterOut(chosen[r].word, ArDiacriticChars))
          /\ Len(FilterOut(chosen[r].word, ArDiacriticChars)) <= MAX_LEN

\* C10: once the daily selection comes upon an entry with a definition, that
\* entry is the choice and the search is over: no further entry is examined,
\* no further attempt is begun and no further upstream call is issued; the
\* next thing the request does is store it.
C10_DefinitionEndsSearch ==
    \A r \in Req :
       /\ ~went_on[r]
       /\ found[r] # None =>
             /\ pc[r] \in {"insert", "readback", "done"}
             /\ pc[r] \in {"insert", "readback"} => chosen[r] = found[r]
             /\ pc[r] = "readback" => Row(TODAY, found[r], lexicon_id[r]) \in table

\* an entry with a definition met in a later attempt, attempts to spare
C10_Witness ==
    /\ pc[1] = "insert" /\ found[1] # None /\ chosen[1] = found[1]
    /\ 2 <= attempt[1] /\ attempt[1] < MAX_RANDOM_TRIES
(* ------------------------------------------------------------------ *)
(* Properties of the batch collector (SpecWords)                       *)
(* ------------------------------------------------------------------ *)
\* C6: a request for count words ends with exactly count items or with a
\* failure and no items: when the collector comes back with fewer than count
\* triples the request fails with 502, never with a shorter or longer list.
C6_ExactCountOrFailure ==
    w_pc = "done" =>
       /\ w_status = 200 => Len(items) = count
       /\ w_status # 200 => items = <<>> /\ w_status \in {400, 502}
       /\ (min_len <= max_len /\ Len(have) < count) => w_status = 502

\* the budget is used up with some but not all of the words collected
C6_Witness ==
    /\ w_pc = "done" /\ w_status = 502
    /\ attempts = max_attempts(count)
    /\ 0 < Len(have) /\ Len(have) < count

\* C28: the collector, once started, returns or raises: every attempt is counted, at most
\* max(200, 20 * need) attempts are made, none is made once need items are
\* collected, the scan of a batch stops there too, and never more than need
\* items are collected or returned.
C28_CollectorBudget ==
    /\ [](/\ attempts <= (IF 20 * count > 200 THEN 20 * count ELSE 200)
          /\ Len(have) <= count
          /\ Len(items) <= count)
    /\ [][ /\ (w_pc = "attempt" /\ w_pc' = "scan") => attempts' = attempts + 1
           /\ attempts' # attempts =>
                 /\ attempts' = attempts + 1
                 /\ Len(have) < count
                 /\ attempts < (IF 20 * count > 200 THEN 20 * count ELSE 200)
           /\ (w_pc = "scan" /\ Len(have') >= count) => w_pc' # "scan" ]_vars
    /\ (w_pc = "attempt") ~> (w_pc = "done")

\* more than ten words asked for: a budget of 20 attempts a word is used up
C28_Witness ==
    /\ w_pc = "done" /\ w_status = 502
    /\ count = LargeCount
    /\ attempts = 20 * count /\ attempts > 200

\* two words collected in fewer attempts than the budget allows
C28_WitnessEnough ==
    /\ w_pc = "done" /\ w_status = 200
    /\ count = 2 /\ Len(items) = 2
    /\ attempts = 2

ValidFor(r, cand) ==
    \E x \in DailyExamined :
       /\ x.word = cand.word /\ x.eid = cand.eid
       /\ PassesFilters(x, MIN_LEN, MAX_LEN)
       /\ ~Excluded(x.word, x.eid, ExcludeWords(existing[r]), ExcludeEids(existing[r]))

\* C11: a valid entry without a definition is kept as the fallback and the
\* scan goes on; when the attempts are used up without an entry that has a
\* definition but with such a fallback, the request goes on to store a valid
\* candidate without definition instead of failing; and a candidate without
\* definition is never the choice when an entry with a definition was found.
C11_FallbackCandidate ==
    /\ [](\A r \in Req :
            /\ detail[r] = "no suitable word" => ~fallback[r]
            /\ pc[r] \in {"insert", "readback"} /\ found[r] = None =>
                  /\ fallback[r]
                  /\ chosen[r] # None /\ chosen[r].definition = None
                  /\ ValidFor(r, chosen[r])
            /\ pc[r] \in {"insert", "readback"} /\ found[r] # None =>
                  chosen[r] = found[r] /\ chosen[r].definition # None)
    /\ [][ \A r \in Req :
             /\ (fallback'[r] /\ ~fallback[r]) =>
                   /\ pc'[r] = "scan"
                   /\ best_valid'[r] # None /\ best_valid'[r].definition = None
             /\ (pc[r] = "attempt" /\ attempt[r] = MAX_RANDOM_TRIES /\ fallback[r]
                   /\ found[r] = None /\ pc'[r] # pc[r]) =>
                   /\ pc'[r] = "insert"
                   /\ chosen'[r] # None /\ chosen'[r].definition = None ]_vars

\* every attempt is used up, the choice is a fallback without definition
C11_Witness ==
    /\ pc[1] = "insert" /\ attempt[1] = MAX_RANDOM_TRIES
    /\ fallback[1] /\ found[1] = None
    /\ chosen[1] = Cand(W_KATABA, None, None)

\* C12: the selection begins at most MAX_RANDOM_TRIES attempts, each of them
\* counted; when they are used up and no valid candidate was found the
\* request fails with 502, returns nothing and leaves no row for the date.
C12_AttemptBudget ==
    /\ [](\A r \in Req :
            /\ attempt[r] <= MAX_RANDOM_TRIES
            /\ detail[r] = "no suitable word" =>
                  /\ pc[r] = "done" /\ status[r] = 502 /\ result[r] = None
                  /\ ~stored[r]
                  /\ RowsFor(table, TODAY) = {})
    /\ [][ \A r \in Req :
             /\ (pc[r] = "attempt" /\ pc'[r] = "scan") =>
                   attempt'[r] = attempt[r] + 1
             /\ (detail'[r] = "no suitable word" /\ detail[r] # "no suitable word") =>
                   /\ pc[r] = "attempt" /\ attempt[r] = MAX_RANDOM_TRIES
                   /\ chosen[r] = None /\ ~fallback[r] /\ found[r] = None
                   /\ table' = table ]_vars

\* a refresh that used up its attempts: the old row is gone, no new one
C12_Witness ==
    /\ pc[1] = "done" /\ detail[1] = "no suitable word" /\ status[1] = 502
    /\ refresh[1] /\ existing[1] = STORED_KITAB
    /\ table = {}

(* ------------------------------------------------------------------ *)
(* Failures of the upstream in either endpoint                         *)
(* ------------------------------------------------------------------ *)
\* C13: when the lexicon is not resolved or the total is zero, daily_word
\* and list_words end with 502 there and then: no attempt is begun, no
\* entry is examined, nothing is collected and no row is stored.
C13_NoLexiconOrNoEntries ==
    /\ \A r \in Req :
          (upstream_error[r] = "lexicon" \/ (total[r] # None /\ total[r].n <= 0)) =>
             /\ pc[r] = "done" /\ status[r] = 502 /\ result[r] = None
             /\ attempt[r] = 0 /\ chosen[r] = None /\ found[r] = None
             /\ ~fallback[r] /\ ~stored[r]
             /\ RowsFor(table, TODAY) = {}
    /\ (w_upstream_error = "lexicon" \/ (w_total # None /\ w_total.n <= 0)) =>
          /\ w_pc = "done" /\ w_status = 502 /\ items = <<>>
          /\ attempts = 0 /\ have = <<>> /\ event = "none"

\* a refresh that found the lexicon empty
C13_Witness ==
    /\ total[1] = PyInt(0) /\ pc[1] = "done"
    /\ refresh[1] /\ existing[1] = STORED_KITAB

(* ------------------------------------------------------------------ *)
(* The request variants of the client                                  *)
(* ------------------------------------------------------------------ *)
\* the keys of the requests sent so far
SentKeys == [i \in 1..Len(c_sent) |-> c_sent[i].key]

\* C14: _search_try_both sends the offset/limit request first; the page/size
\* request is sent if and only if the first was answered with 400 or 404;
\* when the first succeeds the call returns its body and no second request
\* is sent; when it fails with another status that failure is raised at once.
C14_SearchTriesBoth ==
    c_op = "_search_try_both" =>
       /\ SentKeys \in {<<"offset/limit">>, <<"offset/limit", "page/size">>}
       /\ Len(SentKeys) = 2 <=> (c_got # <<>> /\ c_got[1].status \in {400, 404})
       /\ (c_got # <<>> /\ c_got[1].status = 200) =>
             c_pc = "done" /\ c_out = Return(c_got[1].body)
       /\ (c_got # <<>> /\ c_got[1].status \notin {200, 400, 404}) =>
             c_pc = "done" /\ c_out = Raise("HTTPStatusError")

\* the first convention was refused with 404, the second answered
C14_Witness ==
    /\ c_op = "_search_try_both" /\ c_pc = "done"
    /\ Len(c_got) = 2 /\ c_got[1].status = 404 /\ c_got[2].status = 200
    /\ c_out.kind = "return"

\* every reply so far refused its variant
AllRefused == \A i \in 1..Len(c_got) : c_got[i].status \in {400, 404}

\* C15: a call that has fallback conventions and finds every one of them
\* refused with 400 or 404 raises the error; it does not return a value.
C15_AllConventionsRefused ==
    ( /\ c_op \in {"_search_try_both", "get_senses", "senses_by_entry"}
      /\ c_pc = "done"
      /\ Len(c_got) = Len(Requests(c_op, c_arg))
      /\ AllRefused ) => c_out.kind = "raise"

\* p is q or the beginning of q
IsPrefix(p, q) == Len(p) <= Len(q) /\ p = SubSeq(q, 1, Len(p))

\* the body of a 200 holds a list of senses where get_senses looks for one
HoldsSenses(body) ==
    \/ IsList(body)
    \/ IsDict(body) /\ (IsList(Get(body.d, "items")) \/ IsList(Get(body.d, "senses")))

NoQuery(q) == q = None \/ Strip(q.s) = <<>>

\* C19: every search request carries a query that is a non-blank string; when
\* the caller gave none, the query is the default seed character.
C19_QueryNeverBlank ==
    \A i \in 1..Len(c_sent) :
       c_sent[i].path = "/public/search" =>
          /\ IsStr(c_sent[i].query)
          /\ Strip(c_sent[i].query.s) # <<>>
          /\ c_sent[i].query = IF NoQuery(c_arg) THEN PyStr(DEFAULT_QUERY) ELSE c_arg

\* a query of white space, and both conventions tried with it
C19_Witness ==
    /\ c_op = "_search_try_both" /\ c_arg = PyStr(<<"NL", "SP">>)
    /\ Len(c_sent) = 2

\* the places in the list of the lexicons whose name has LEXICON_NAME in it
Hits(listed) == {i \in 1..Len(listed) : NameMatches(listed[i].d)}

\* C20: with an identifier configured find_lexicon_id returns it as it is and
\* sends no request; without one it fetches the list once and returns the
\* identifier of the first lexicon listed whose name has the configured name
\* in it; when no lexicon listed has, it raises.
C20_FindLexiconId ==
    c_op = "find_lexicon_id" =>
       IF Truthy(c_arg)
       THEN c_pc = "done" /\ c_sent = <<>> /\ c_out = Return(c_arg)
       ELSE /\ Len(c_sent) = 1 /\ c_sent[1].path = "/public/lexicons"
            /\ (c_pc = "done" /\ c_got[1].status = 200) =>
                  LET listed == LexiconItems(c_got[1].body)
                  IN IF Hits(listed) = {}
                     THEN c_out = Raise("RuntimeError")
                     ELSE \E i \in Hits(listed) :
                             /\ \A j \in Hits(listed) : i <= j
                             /\ c_out = Return(LexiconIdOf(listed[i].d))

\* two lexicons match; the first one listed is returned
C20_Witness ==
    /\ c_op = "find_lexicon_id" /\ c_pc = "done" /\ Len(c_got) = 1
    /\ c_got[1] = Reply(200, PyList(<<L_TITLE, L_RIYADH>>))
    /\ c_out = Return(PyStr(<<"T">>))

(* ------------------------------------------------------------------ *)
(* Errors of the upstream and the order of the sense lookups           *)
(* ------------------------------------------------------------------ *)
\* C17: an error raised by any upstream call during daily_word or list_words
\* is never passed over: the request ends with it as a 502.
C17_UpstreamErrorAborts ==
    /\ \A r \in Req :
          upstream_error[r] # "none" =>
             pc[r] = "done" /\ status[r] = 502 /\ result[r] = None
    /\ w_upstream_error # "none" => w_pc = "done" /\ w_status = 502 /\ items = <<>>

\* the lookups made for the entry
LookupsBy == [i \in 1..Len(l_lookups) |-> l_lookups[i].by]

\* by entry id when the entry has one, by word only after a first lookup
\* that gave nothing or when there is no entry id
IdThenWord ==
    /\ l_x.eid # None =>
          /\ LookupsBy \in {<<"id">>, <<"id", "query">>}
          /\ LookupsBy = <<"id", "query">> <=> l_lookups[1].gave = "nothing"
    /\ l_x.eid = None => LookupsBy = <<"query">>

Returns(fn) == h_pc = "done" /\ h_fn = fn

\* C23: strip_diacritics is idempotent, stripping its result again gives the
\* same string, and its result holds no character of the diacritic ranges.
C23_StripIdempotent ==
    Returns("strip_diacritics") =>
       /\ strip_diacritics(h_out) = h_out
       /\ \A i \in 1..Len(h_out) : h_out[i] \notin ArDiacriticChars

\* a string with a dagger alef and another diacritic between its letters
C23_Witness ==
    /\ Returns("strip_diacritics")
    /\ h_in = <<"KAF", "DAGGER_ALEF", "FATHA">>
    /\ h_out = <<"KAF">>

\* C24: is_ar_letters_only is true if and only if the string left after diacritic
\* stripping is non-empty and each of its characters, the last one included, is
\* in the base-letter range.
C24_LettersOnlyIff ==
    Returns("is_ar_letters_only") =>
       LET b == FilterOut(h_in, ArDiacriticChars)
       IN h_out <=> (b # <<>> /\ \A i \in 1..Len(b) : b[i] \in ArLetterChars)

\* the first non-blank str of entry among keys, in their order; the nested
\* "form" record only when the top level has none; trimmed; "" when none
ProbesInOrder(entry, keys, out) ==
    LET top == {i \in 1..Len(keys) : NonBlankStr(Get(entry, keys[i]))}
        form == Get(entry, "form")
        nested == IF IsDict(form)
                  THEN {j \in 1..3 : NonBlankStr(Get(form.d,
                                         <<"text", "value", "form">>[j]))}
                  ELSE {}
    IN /\ \A i \in top : (\A k \in top : i <= k) => out = Strip(entry[keys[i]].s)
       /\ top = {} =>
             \A j \in nested :
                (\A k \in nested : j <= k) =>
                   out = Strip(form.d[<<"text", "value", "form">>[j]].s)
       /\ top = {} /\ nested = {} => out = <<>>
       /\ Strip(out) = out

\* C25: normalize_word returns the first non-blank string among the top-level
\* fields lemma, form, headword, word, display, text, title (then entryHead, in
\* main.py), probes the nested "form" record in the order text, value, form
\* only when none of them is one, returns "" when nothing is found, and what
\* it returns is trimmed.
C25_HeadwordPriority ==
    /\ Returns("normalize_word") =>
          ProbesInOrder(h_in, <<"lemma", "form", "headword", "word", "display",
                                "text", "title", "entryHead">>, h_out)
    /\ Returns("ksaa_normalize_word") =>
          ProbesInOrder(h_in, <<"lemma", "form", "headword", "word", "display",
                                "text", "title">>, h_out)

\* a padded title behind a blank lemma
C25_Witness ==
    /\ Returns("normalize_word")
    /\ h_in = [lemma |-> PyStr(<<"SP">>), title |-> PyStr(<<"SP", "KAF", "NL">>)]
    /\ h_out = <<"KAF">>


\* the total the envelope states, else the number of items it returns
StatedOrCounted(data) ==
    IF IsDict(data)
    THEN LET d == data.d
         IN CASE IsInt(Get(d, "total")) -> d["total"].n
              [] OTHER ->
            CASE IsInt(Get(d, "count")) -> d["count"].n
              [] OTHER ->
            CASE IsDict(Get(d, "page")) /\ IsInt(Get(d["page"].d, "totalElements")) ->
                    d["page"].d["totalElements"].n
              [] OTHER ->
            CASE IsList(Get(d, "items")) -> Len(d["items"].l)
              [] OTHER ->
            CASE IsList(Get(d, "content")) -> Len(d["content"].l)
              [] OTHER -> 0
    ELSE IF IsList(data) THEN Len(data.l)
    ELSE 0

\* C21: count_candidates returns the total of the response envelope, read in the
\* order total, count, page.totalElements, and otherwise the number of items
\* returned (items, content, or the payload when it is a sequence); 0 when
\* nothing parseable is found, so a response with an empty item list counts 0.
C21_CountCandidates ==
    Returns("count_candidates") =>
       h_out = IF StatedOrCounted(h_in[1]) # 0 THEN StatedOrCounted(h_in[1])
               ELSE StatedOrCounted(h_in[2])


\* the places of the batch whose entry passes the length and letter filters
\* and the exclusion, and those among them whose lookups give a definition
ValidPlaces ==
    {i \in 1..Len(h_in.batch) :
        /\ PassesFilters(h_in.batch[i], MIN_LEN, MAX_LEN)
        /\ ~Excluded(h_in.batch[i].word, h_in.batch[i].eid,
                     h_in.exclude_words, h_in.exclude_entry_ids)}
DefinedPlaces == {i \in ValidPlaces : h_in.batch[i].res.definition # None}
CandAt(i) ==
    Cand(h_in.batch[i].word, h_in.batch[i].res.definition, h_in.batch[i].eid)
First(places) == CHOOSE i \in places : \A k \in places : i <= k

\* C22: a scan that returns gives the first entry of the batch, in list
\* order, that passes all filters and has a definition; if there is none, the
\* first entry in list order that passes all filters; if none passes, nothing.
C22_FirstInListOrder ==
    Returns("_scan_entries_for_candidate") /\ h_out.kind = "return" =>
       h_out.cand = IF DefinedPlaces # {} THEN CandAt(First(DefinedPlaces))
                    ELSE IF ValidPlaces # {} THEN CandAt(First(ValidPlaces))
                    ELSE None

\* two valid entries without a definition before one that has a definition
C22_Witness ==
    /\ Returns("_scan_entries_for_candidate") /\ h_out.kind = "return"
    /\ ValidPlaces = {1, 2, 3}
    /\ DefinedPlaces = {3}
    /\ h_in.batch[1].word # h_in.batch[2].word
    /\ h_out.cand = CandAt(3)

\* two valid entries and none with a definition: the first is the fallback
C22_WitnessFallback ==
    /\ Returns("_scan_entries_for_candidate") /\ h_out.kind = "return"
    /\ ValidPlaces = {2, 3}
    /\ DefinedPlaces = {}
    /\ h_in.batch[2].word # h_in.batch[3].word
    /\ h_out.cand = CandAt(2)


\* a non-empty list whose elements are all of one kind
ListOf(v, Is(_)) == IsList(v) /\ v.l # <<>> /\ \A i \in 1..Len(v.l) : Is(v.l[i])
\* the non-blank strings of a list, stripped, in list order
Texts(l) == LET keep == {i \in 1..Len(l) : NonBlankStr(l[i])}
            IN [n \in 1..Cardinality(keep) |->
                   LET i == CHOOSE i \in keep : Cardinality({k \in keep : k <= i}) = n
                   IN PyStr(Strip(l[i].s))]
\* the text of an element of a representations array, None when it has none
TextOf(r) ==
    IF NonBlankStr(Get(r.d, "text")) THEN PyStr(Strip(r.d["text"].s))
    ELSE IF NonBlankStr(Get(r.d, "value")) THEN PyStr(Strip(r.d["value"].s))
    ELSE None
Arabic(r) == Get(r.d, "lang") \in {PyStr(tag) : tag \in AR_LANG_TAGS}

RECURSIVE HoldsText(_)
HoldsText(v) ==
    CASE IsStr(v) -> Strip(v.s) # <<>>
      [] IsList(v) -> \E i \in 1..Len(v.l) : HoldsText(v.l[i])
      [] IsDict(v) -> \E k \in DOMAIN v.d \ {"lang"} : HoldsText(v.d[k])
      [] OTHER -> FALSE

\* C27: for every record r built from the known fields extract_definition(r)
\* equals extract_definition([r]), and it is none only when r holds no text.
C27_RecordAsInList ==
    Returns("extract_definition_from_senses") /\ IsDict(h_in) =>
       /\ h_out = extract_definition_from_senses(PyList(<<h_in>>))
       /\ h_out = None => ~HoldsText(h_in)


(* ------------------------------------------------------------------ *)
(* Properties of the year-plan builder (SpecBuild)                     *)
(* ------------------------------------------------------------------ *)
\* C29: after a run of the builder the plan holds exactly one entry for every
\* day index in 1..TARGET_COUNT, the indexes follow the order of collection,
\* and every entry keeps the full list of senses extracted for its word, its
\* definition being the first of them.
C29_PlanComplete ==
    b_pc = "done" =>
       /\ \A i \in 1..TARGET_COUNT :
             Cardinality({row \in year_words : row.day_index = i}) = 1
       /\ \A row \in year_words :
             /\ row.day_index \in 1..Len(collected)
             /\ row.word = collected[row.day_index].word
             /\ row.senses = collected[row.day_index].senses
             /\ row.senses # <<>>
             /\ row.definition = PyStr(row.senses[1])


(* ------------------------------------------------------------------ *)
(* Properties of a refresh (SpecRefresh)                               *)
(* ------------------------------------------------------------------ *)
\* the request is a refresh that found a row for today
RefreshOfRow == refresh[1] /\ existing[1] # None

\* C30: a refresh deletes the row of today before it calls the upstream; a
\* refresh that then fails, for whatever reason, leaves the date without a
\* row: the old row is not put back, and the next request without refresh
\* finds none and goes on to a fresh selection.
C30_RefreshDeletesFirst ==
    /\ [](RefreshOfRow =>
             /\ called[1] => pc[1] # "delete"
             /\ (pc[1] # "delete" /\ ~stored[1]) => RowsFor(table, TODAY) = {}
             /\ status[1] = 502 => RowsFor(table, TODAY) = {} /\ result[1] = None)
    /\ [][ /\ (pc[1] = "delete" /\ pc'[1] # "delete") =>
                 ~called'[1] /\ RowsFor(table', TODAY) = {}
           /\ (RefreshOfRow /\ status[1] = 502 /\ pc'[1] = "load") =>
                 RowsFor(table', TODAY) = {}
           /\ (pc[1] = "load" /\ pc'[1] # "load" /\ ~refresh[1]
                  /\ RowsFor(table, TODAY) = {}) =>
                 pc'[1] = "lexicon" /\ status'[1] = 0 ]_vars

\* a refresh that used up its attempts without a different valid word
C30_Witness ==
    /\ RefreshOfRow
    /\ pc[1] = "done" /\ status[1] = 502 /\ detail[1] = "no suitable word"
    /\ RowsFor(table, TODAY) = {}


(* ------------------------------------------------------------------ *)
(* list_words and the daily cache                                      *)
(* ------------------------------------------------------------------ *)
\* no call of daily_word has got past its read of the cache
NoDailyWordYet == pc[1] \in {"idle", "load"}

\* a request of list_words arrives
WordsArrival == w_pc \in {"idle", "done"} /\ wordsVars' # wordsVars

\* C31: list_words uses no cache: no step of any of its calls, successful or
\* failing, changes the cache table or anything daily_word keeps, so a
\* daily_word call that follows finds the table as it was before them and
\* answers from the record that was there; and a call with min_len > max_len
\* ends with 400 on arrival, before any upstream request, and only such a
\* call ends with 400.
C31_ListWordsNoCache ==
    /\ [][ wordsVars' # wordsVars => UNCHANGED <<has_batch, dailyVars>> ]_vars
    /\ \A tbl \in {{}, {STORED_KITAB}} :
          (table = tbl) => [](NoDailyWordYet => table = tbl /\ last = None)
    /\ [](\A r \in Req :
            (pc[r] = "done" /\ ~refresh[r] /\ existing[r] # None) =>
               /\ existing[r] = STORED_KITAB
               /\ status[r] = 200
               /\ result[r] = Shows(STORED_KITAB)
               /\ ~called[r]
               /\ table = {STORED_KITAB})
    /\ [][ WordsArrival =>
             /\ (min_len' > max_len') <=> (w_status' = 400)
             /\ (min_len' > max_len') =>
                   /\ w_pc' = "done"
                   /\ items' = <<>>
                   /\ w_total' = None
                   /\ w_upstream_error' = "none"
                   /\ attempts' = 0
                   /\ event' = "none" ]_vars
    /\ [][ w_status' = 400 /\ wordsVars' # wordsVars => WordsArrival ]_vars
    /\ [](w_status = 400 => w_pc = "done" /\ min_len > max_len)

\* a call that collected its words, then a daily_word answered from the
\* record stored before it
C31_Witness ==
    /\ w_pc = "done" /\ w_status = 200 /\ Len(items) = count
    /\ pc[1] = "done" /\ ~refresh[1] /\ existing[1] = STORED_KITAB
    /\ result[1] = Shows(STORED_KITAB)

\* a call refused for its window, then a daily_word that found no record
\* and stored one
C31_WitnessRefused ==
    /\ w_pc = "done" /\ w_status = 400 /\ min_len > max_len
    /\ pc[1] = "done" /\ existing[1] = None /\ stored[1]

====
